---- MODULE Spec2Model ----
(***************************************************************************)
(* DownloadQueue (react-native-background-downloader-queue): the engine    *)
(* that keeps persisted records (specs), on-disk files and the download    *)
(* provider's tasks consistent.  Every async method is cut at its awaits:  *)
(* one action per stretch of code that runs without suspension, the calls  *)
(* in flight kept in `proc`.                                               *)
(***************************************************************************)
EXTENDS Integers, Sequences, FiniteSets, TLC

\* ------------------------------------------------------------------ bounds
MaxIds == 2        \* uuid() draws
MaxHandles == 2    \* download() calls
MaxTime == 3       \* Date.now() runs over 1..MaxTime
MaxTimers == 2     \* pending setTimeout deletions
MaxCalls == 4      \* calls of the public API in a behaviour of Spec
MaxCallsBoot == 5  \* ... of SpecBoot
MaxCallsNet == 5   \* ... of SpecNet
MaxCallsQuery == 5 \* ... of SpecQuery
MaxCallsRetry == 5 \* ... of SpecRetry
MaxCallsLive == 4  \* ... of SpecLive
MaxCallsOverlap == 5  \* ... of SpecOverlap
MaxCallsExpiry == 5   \* ... of SpecExpiry
MaxCallsRevive == 7   \* ... of SpecRevive
MaxCallsFaults == 5   \* ... of SpecFaults
MaxCallsTypes == 6    \* ... of SpecTypes
MinuteMs == 3      \* the whole minute of roundToNextMinute, scaled from 60000

Urls == {"u", "v"}
Procs == {1, 2}    \* async calls that may be suspended at the same time

VARIABLES
  specs,               \* this.specs: Spec[] (in memory)
  tasks,               \* this.tasks: DownloadTask[] (handles, in registration order)
  inited,              \* this.inited
  handlers,            \* this.handlers # undefined (the client's callbacks)
  active,              \* this.active
  erroredIds,          \* this.erroredIds (RetrySet)
  errorTimer,          \* this.errorTimer # null
  intervals,           \* the setInterval timers of the engine that are running
  wouldAutoPause,      \* this.wouldAutoPause
  isPausedByUser,      \* this.isPausedByUser
  activeNetworkTypes,  \* this.activeNetworkTypes
  netInfoFetchState,   \* this.netInfoFetchState # undefined
  netInfoUnsubscriber, \* this.netInfoUnsubscriber # undefined (listener subscribed)
  store,               \* Record Store (kvfs): id -> persisted Spec
  files,               \* File Store: the file names [id, ext] in the domain directory
  xfer,                \* Download Provider: handle -> [id, url, st, cb]
  timers,              \* pending deletion timers: their wake-up times
  now,                 \* Date.now()
  net,                 \* Network Monitor's current state
  nextId,              \* next uuid()
  proc,                \* async calls suspended at an await
  out,                 \* what the last step issued: transport commands, notifications
  calls,               \* public API calls the caller may still make
  last,                \* the public API call the last step made, if it was one
  slots,               \* how many async calls may be suspended at the same time
  queue                \* the setQueue call in flight: what it has left to do

vars == <<specs, tasks, inited, handlers, active, erroredIds, errorTimer, intervals,
          wouldAutoPause, isPausedByUser, activeNetworkTypes, netInfoFetchState,
          netInfoUnsubscriber, store, files, xfer, timers, now, net, nextId,
          proc, out, calls, last, slots, queue>>

\* ----------------------------------------------------------------- values
NoSpec == [id |-> 0, url |-> "", createTime |-> 0, finished |-> FALSE]

\* no setQueue in flight
NoQueue == [on |-> FALSE, p |-> 0, urls |-> <<>>, rm |-> <<>>, add |-> <<>>,
            removed |-> <<>>, dt |-> 0, sched |-> FALSE]

IdleProc == [pc |-> "idle", url |-> "", id |-> 0, stale |-> FALSE, idx |-> 0,
             dt |-> 0, sched |-> FALSE, snap |-> NoSpec, sa |-> FALSE,
             nopt |-> "none", loaded |-> <<>>, existing |-> <<>>, dir |-> {},
             t0 |-> 0, dels |-> {}, h |-> 0]

Ev(k, h, u) == [k |-> k, h |-> h, u |-> u]

Min(S) == CHOOSE x \in S : \A y \in S : x <= y

RemoveAt(s, i) == SubSeq(s, 1, i - 1) \o SubSeq(s, i + 1, Len(s))

\* a sorted sequence with x put in its place
Insert(s, x) ==
  LET k == Cardinality({i \in 1..Len(s) : s[i] <= x})
  IN SubSeq(s, 1, k) \o <<x>> \o SubSeq(s, k + 1, Len(s))

RECURSIVE InsertAll(_, _)
InsertAll(s, xs) ==
  IF xs = <<>> THEN s ELSE InsertAll(Insert(s, Head(xs)), Tail(xs))

\* a set of integers as the ascending sequence of its elements
RECURSIVE SetToSeq(_)
SetToSeq(S) == IF S = {} THEN <<>> ELSE <<Min(S)>> \o SetToSeq(S \ {Min(S)})

\* lowest free slot for a call that is about to suspend, 0 if none
FreeP ==
  LET free == {p \in 1..slots : proc[p].pc = "idle" /\ ~(queue.on /\ queue.p = p)}
  IN IF free # {} THEN Min(free) ELSE 0

\* ----------------------------------------------------------- engine object
\* The fields the synchronous helpers read and write, as one value.
This == [specs |-> specs, tasks |-> tasks, active |-> active,
         erroredIds |-> erroredIds, errorTimer |-> errorTimer,
         intervals |-> intervals,
         wouldAutoPause |-> wouldAutoPause, isPausedByUser |-> isPausedByUser,
         xfer |-> xfer, timers |-> timers, out |-> <<>>]

Commit(m) ==
  /\ Len(m.xfer) <= MaxHandles
  /\ Len(m.timers) <= MaxTimers
  /\ specs' = m.specs
  /\ tasks' = m.tasks
  /\ active' = m.active
  /\ erroredIds' = m.erroredIds
  /\ errorTimer' = m.errorTimer
  /\ intervals' = m.intervals
  /\ wouldAutoPause' = m.wouldAutoPause
  /\ isPausedByUser' = m.isPausedByUser
  /\ xfer' = m.xfer
  /\ timers' = m.timers
  /\ out' = m.out

Emit(m, k, h, u) == [m EXCEPT !.out = Append(@, Ev(k, h, u))]

\* this.handlers?.onX?.(...): a notification, when the callbacks are set
Notify(m, k, h, u) == IF handlers THEN Emit(m, k, h, u) ELSE m

\* -------------------------------------------------------- Download Provider
\* task.pause()
pause(m, h) ==
  Emit([m EXCEPT !.xfer[h].st = IF @ = "DOWNLOADING" THEN "PAUSED" ELSE @],
       "pause", h, "")

\* task.resume()
resume(m, h) ==
  Emit([m EXCEPT !.xfer[h].st = IF @ = "PAUSED" THEN "DOWNLOADING" ELSE @],
       "resume", h, "")

\* task.stop()
stop(m, h) ==
  Emit([m EXCEPT !.xfer[h].st =
          IF @ \in {"DOWNLOADING", "PAUSED"} THEN "STOPPED" ELSE @],
       "stop", h, "")

\* download({id, url, destination}): a new transfer, its handle the next index
download(m, spec) ==
  Emit([m EXCEPT !.xfer = Append(@, [id |-> spec.id, url |-> spec.url,
                                     st |-> "DOWNLOADING", cb |-> FALSE])],
       "download", Len(m.xfer) + 1, spec.url)

\* ---------------------------------------------------------------- helpers
\* index in this.tasks of the first task with task.id = id, 0 if none
taskIndexOf(m, id) ==
  LET hit == {i \in 1..Len(m.tasks) : m.xfer[m.tasks[i]].id = id}
  IN IF hit = {} THEN 0 ELSE Min(hit)

\* (ensureErrorTimerOn setting an interval whether or not one is held)
ensureErrorTimerOn_unguarded(m) ==
  [m EXCEPT !.errorTimer = TRUE, !.intervals = @ + 1]

\* ensureErrorTimerOn()
ensureErrorTimerOn(m) ==
  IF ~m.errorTimer
  THEN [m EXCEPT !.errorTimer = TRUE, !.intervals = @ + 1]
  ELSE m

\* if (this.errorTimer) { clearInterval(this.errorTimer); this.errorTimer = null }
clearErrorTimer(m) ==
  IF m.errorTimer
  THEN [m EXCEPT !.errorTimer = FALSE, !.intervals = @ - 1]
  ELSE m

\* removeTask(id) without its return value
removeTask(m, id) ==
  LET taskIndex == taskIndexOf(m, id)
      left == m.erroredIds \ {id}
      m1 == [m EXCEPT !.tasks = IF taskIndex > 0 THEN RemoveAt(@, taskIndex) ELSE @,
                      !.erroredIds = left]
  IN IF left = {} THEN clearErrorTimer(m1) ELSE m1

\* addTask(url, task): registers the four callbacks and pushes the task
addTask(m, h) ==
  [m EXCEPT !.xfer[h].cb = TRUE, !.tasks = Append(@, h)]

\* (start(spec) leaving the new task running whatever this.active is)
start_running(m, spec) ==
  addTask(download(m, spec), Len(m.xfer) + 1)

\* start(spec)
start(m, spec) ==
  LET h == Len(m.xfer) + 1
      m1 == addTask(download(m, spec), h)
  IN IF ~m1.active THEN pause(m1, h) ELSE m1

roundToNextMinute(timestamp) ==
  LET q == timestamp \div MinuteMs   \* floor, also for negatives
  IN IF q * MinuteMs = timestamp THEN timestamp ELSE (q + 1) * MinuteMs

\* scheduleDeletions(toDelete, basisTimestamp): one setTimeout per distinct
\* wake-up time of this call
scheduleDeletions(m, toDelete) ==
  LET wakeUpTimes == {roundToNextMinute(-toDelete[i].createTime) :
                        i \in 1..Len(toDelete)}
  IN [m EXCEPT !.timers = InsertAll(@, SetToSeq(wakeUpTimes))]


\* extensionFromUri(uri), for a urlToPath that knows "v" as v.mp3
extensionFromUri(uri) == IF uri = "v" THEN "mp3" ELSE ""

\* pathFromId(id, extension): the file's name in the domain directory
pathFromId(id, extension) == [id |-> id, ext |-> extension]

PathOf(spec) == pathFromId(spec.id, extensionFromUri(spec.url))

\* kvfs.write(keyFromId(id), spec) and kvfs.rm(keyFromId(id)), once they land
kvWrite(st, spec) ==
  [i \in DOMAIN st \cup {spec.id} |-> IF i = spec.id THEN spec ELSE st[i]]

kvRm(st, ids) == [i \in DOMAIN st \ ids |-> st[i]]

\* (addUrl treating every known record as lazily deleted)
isLazyDeleted_always(spec) == TRUE

\* a spec is lazily deleted: addUrl's test for a revival
isLazyDeleted(spec) == spec.createTime <= 0

\* specs.findIndex(spec => spec.url === url)
indexOfUrl(ss, url) ==
  LET hit == {i \in 1..Len(ss) : ss[i].url = url}
  IN IF hit = {} THEN 0 ELSE Min(hit)

\* specs.findIndex(spec => spec.id === id)
indexOfId(ss, id) ==
  LET hit == {i \in 1..Len(ss) : ss[i].id = id}
  IN IF hit = {} THEN 0 ELSE Min(hit)

\* The object a suspended call holds a reference to: the element of
\* this.specs it was taken from, or, once this.specs no longer holds that
\* object (spliced out, filtered out, or reloaded by init), the call's own copy.
Held(m, p) ==
  LET i == indexOfId(m.specs, proc[p].id)
  IN IF ~proc[p].stale /\ i > 0 THEN m.specs[i] ELSE proc[p].snap

\* an assignment to a field of that object
Assign(m, p, new) ==
  LET i == indexOfId(m.specs, proc[p].id)
  IN IF ~proc[p].stale /\ i > 0 THEN [m EXCEPT !.specs[i] = new] ELSE m

Suspend(p, pc, rec) == proc' = [proc EXCEPT ![p] = [rec EXCEPT !.pc = pc]]
Finish(p) == proc' = [proc EXCEPT ![p] = IdleProc]

\* ------------------------------------------------------ verifyInitialized
\* (verifyInitialized letting every call through)
verifyInitialized_skipped == TRUE

\* verifyInitialized(): whether the call gets past it
verifyInitialized == inited

\* a public method throws before it has done anything
Throws(error) ==
  /\ out' = <<Ev("throw", 0, error)>>
  /\ UNCHANGED <<specs, tasks, inited, handlers, active, erroredIds, errorTimer,
                 intervals,
                 wouldAutoPause, isPausedByUser, activeNetworkTypes,
                 netInfoFetchState, netInfoUnsubscriber, store, files,
                 xfer, timers, now, net, nextId, proc>>

\* -------------------------------------------------------------- addUrl
\* the call returns without having suspended: a top-level call holds no slot
Return(p) == IF p = 0 \/ proc[p].pc = "idle" THEN UNCHANGED proc ELSE Finish(p)

\* addUrl(url) up to its first await, run from the engine state m by a call
\* that suspends in slot p
addUrl(m, p, url) ==
  IF ~verifyInitialized
  THEN Commit(Emit(m, "throw", 0, "not initialized")) /\ Return(p)
       /\ UNCHANGED nextId
  ELSE
  LET i == indexOfUrl(m.specs, url) IN
  IF i > 0 /\ ~isLazyDeleted(m.specs[i]) THEN
     Commit(m) /\ Return(p) /\ UNCHANGED nextId
  ELSE IF i > 0 THEN
     LET cur == [m.specs[i] EXCEPT !.createTime = now] IN
     /\ p # 0
     /\ Commit([m EXCEPT !.specs[i] = cur])
     /\ Suspend(p, "add_revive",
                [IdleProc EXCEPT !.url = url, !.id = cur.id, !.snap = cur])
     /\ UNCHANGED nextId
  ELSE
     /\ p # 0
     /\ nextId <= MaxIds
     /\ nextId' = nextId + 1
     /\ Commit(m)
     /\ Suspend(p, "add_new",
                [IdleProc EXCEPT !.url = url, !.id = nextId,
                   !.snap = [id |-> nextId, url |-> url,
                             createTime |-> now, finished |-> FALSE]])

\* addUrl(url), called by the client
AddUrl(url) ==
  /\ addUrl(This, FreeP, url)
  /\ UNCHANGED <<inited, handlers, activeNetworkTypes, netInfoFetchState,
                 netInfoUnsubscriber, store, files, now, net>>

\* addUrl of a new url after `await this.kvfs.write`: push and start
AddNewResume(p) ==
  /\ proc[p].pc = "add_new"
  /\ store' = kvWrite(store, proc[p].snap)
  /\ Commit(start([This EXCEPT !.specs = Append(@, proc[p].snap)], proc[p].snap))
  /\ Finish(p)
  /\ UNCHANGED <<inited, handlers, activeNetworkTypes, netInfoFetchState,
                 netInfoUnsubscriber, files, now, net, nextId>>

\* (addUrl going on after a write that failed, as if the error were swallowed)
AddNewReject_swallowed(p) ==
  /\ proc[p].pc = "add_new"
  /\ Commit(start([This EXCEPT !.specs = Append(@, proc[p].snap)], proc[p].snap))
  /\ Finish(p)
  /\ UNCHANGED <<inited, handlers, activeNetworkTypes, netInfoFetchState,
                 netInfoUnsubscriber, store, files, now, net, nextId>>

\* addUrl of a new url when `await this.kvfs.write` rejects: addUrl rejects
\* with the error, nothing after the await is run
AddNewReject(p) ==
  /\ proc[p].pc = "add_new"
  /\ Commit(Emit(This, "throw", 0, proc[p].url))
  /\ Finish(p)
  /\ UNCHANGED <<inited, handlers, activeNetworkTypes, netInfoFetchState,
                 netInfoUnsubscriber, store, files, now, net, nextId>>

\* (a revival starting a transfer only for an unfinished record)
reviveStarts_unfinishedOnly(curSpec, fileExists) == ~curSpec.finished

\* whether a revival starts a transfer
reviveStarts(curSpec, fileExists) == ~curSpec.finished \/ ~fileExists

\* addUrl of a lazily-deleted url after `await Promise.all([exists, write])`
AddReviveResume(p) ==
  /\ proc[p].pc = "add_revive"
  /\ store' = kvWrite(store, proc[p].snap)
  /\ LET curSpec == Held(This, p) IN
     IF reviveStarts(curSpec, PathOf(curSpec) \in files)
     THEN /\ Commit(start(This, curSpec))
          /\ Finish(p)
     ELSE /\ Commit(This)
          /\ Suspend(p, "add_stat", proc[p])
  /\ UNCHANGED <<inited, handlers, activeNetworkTypes, netInfoFetchState,
                 netInfoUnsubscriber, files, now, net, nextId>>

\* the revival of a complete file after `await RNFS.stat`: begin and done
\* notifications (stat rejects when the file is gone, and addUrl with it)
AddStatResume(p) ==
  /\ proc[p].pc = "add_stat"
  /\ LET curSpec == Held(This, p) IN
     IF PathOf(curSpec) \in files
     THEN Commit(Notify(Notify(This, "onBegin", 0, curSpec.url),
                      "onDone", 0, curSpec.url))
     ELSE Commit(Emit(This, "throw", 0, curSpec.url))
  /\ Finish(p)
  /\ UNCHANGED <<inited, handlers, activeNetworkTypes, netInfoFetchState,
                 netInfoUnsubscriber, store, files, now, net, nextId>>

\* ------------------------------------------------------------ removeUrl
DeleteTimes == {-1, 0, 2}

\* (removeUrlInternal going to its await without calling onWillRemove)
removeUrlInternal_unannounced(m, p, url, deleteTime, scheduleDeletion) ==
  LET index == indexOfUrl(m.specs, url) IN
  IF index = 0 THEN
     Commit(m) /\ Return(p)
  ELSE
     /\ p # 0
     /\ Commit(m)
     /\ Suspend(p, "rm_will",
                [IdleProc EXCEPT !.url = url, !.id = m.specs[index].id,
                   !.idx = index, !.dt = deleteTime, !.sched = scheduleDeletion,
                   !.snap = m.specs[index]])

\* removeUrlInternal(url, deleteTime, scheduleDeletion) up to `await
\* onWillRemove`, run from the engine state m by a call that suspends in slot p
removeUrlInternal(m, p, url, deleteTime, scheduleDeletion) ==
  LET index == indexOfUrl(m.specs, url) IN
  IF index = 0 THEN
     Commit(m) /\ Return(p)
  ELSE
     /\ p # 0
     /\ Commit(Notify(m, "onWillRemove", 0, url))
     /\ Suspend(p, "rm_will",
                [IdleProc EXCEPT !.url = url, !.id = m.specs[index].id,
                   !.idx = index, !.dt = deleteTime, !.sched = scheduleDeletion,
                   !.snap = m.specs[index]])

\* removeUrl(url, deleteTime)
RemoveUrl(url, deleteTime) ==
  IF ~verifyInitialized THEN Throws("not initialized") ELSE
  /\ removeUrlInternal(This, FreeP, url, deleteTime, TRUE)
  /\ UNCHANGED <<inited, handlers, activeNetworkTypes, netInfoFetchState,
                 netInfoUnsubscriber, store, files, now, net, nextId>>

\* removeTask(spec.id) and task.stop() on the task it returned
detachTask(m, id) ==
  LET taskIndex == taskIndexOf(m, id)
      m1 == removeTask(m, id)
  IN IF taskIndex > 0 THEN stop(m1, m.tasks[taskIndex]) ELSE m1

\* removeUrlInternal after onWillRemove: detach the task, then either mark
\* the spec (lazy) and write it, or remove it from storage (eager)
RmWillResume(p) ==
  /\ proc[p].pc = "rm_will"
  /\ LET m1 == detachTask(This, proc[p].id)
         marked == [Held(m1, p) EXCEPT !.createTime = -proc[p].dt]
     IN IF proc[p].dt >= 0
        THEN /\ Commit(Assign(m1, p, marked))
             /\ Suspend(p, "rm_write", [proc[p] EXCEPT !.snap = marked])
        ELSE /\ Commit(m1)
             /\ Suspend(p, "rm_rm", [proc[p] EXCEPT !.snap = Held(m1, p)])
  /\ UNCHANGED <<inited, handlers, activeNetworkTypes, netInfoFetchState,
                 netInfoUnsubscriber, store, files, now, net, nextId>>

\* the lazy branch after `await this.kvfs.write`
RmWriteResume(p) ==
  /\ proc[p].pc = "rm_write"
  /\ store' = kvWrite(store, proc[p].snap)
  /\ IF proc[p].sched /\ proc[p].dt > 0
     THEN Commit(scheduleDeletions(This, <<Held(This, p)>>))
     ELSE Commit(This)
  /\ Finish(p)
  /\ UNCHANGED <<inited, handlers, activeNetworkTypes, netInfoFetchState,
                 netInfoUnsubscriber, files, now, net, nextId>>

\* the eager branch after `await this.kvfs.rm`: this.specs.splice(index, 1)
\* with the index found before the awaits
RmRmResume(p) ==
  /\ proc[p].pc = "rm_rm"
  /\ store' = kvRm(store, {proc[p].id})
  /\ Commit([This EXCEPT !.specs =
               IF proc[p].idx <= Len(@) THEN RemoveAt(@, proc[p].idx) ELSE @])
  /\ Suspend(p, "rm_unlink", proc[p])
  /\ UNCHANGED <<inited, handlers, activeNetworkTypes, netInfoFetchState,
                 netInfoUnsubscriber, files, now, net, nextId>>

\* after `await RNFS.unlink(spec.path)` (a missing file is tolerated)
RmUnlinkResume(p) ==
  /\ proc[p].pc = "rm_unlink"
  /\ files' = files \ {PathOf(proc[p].snap)}
  /\ Commit(This)
  /\ Finish(p)
  /\ UNCHANGED <<inited, handlers, activeNetworkTypes, netInfoFetchState,
                 netInfoUnsubscriber, store, now, net, nextId>>


\* ------------------------------------------------------- task callbacks
\* the spec the done callback works on: this.specs.find(spec => spec.url === url)
doneLookup(ss, h, xf) == indexOfUrl(ss, xf[h].url)

\* The done callback of task h up to `await this.kvfs.write`; m.xfer already
\* holds what the provider did.  Without a spec it returns at once.
DoneCallback(m, h) ==
  LET i == doneLookup(m.specs, h, m.xfer) IN
  IF i = 0 THEN
     /\ Commit(m)
     /\ UNCHANGED proc
  ELSE
     LET m1 == removeTask(m, m.xfer[h].id)
         spec == [m1.specs[i] EXCEPT !.finished = TRUE]
     IN /\ FreeP # 0
        /\ Commit([m1 EXCEPT !.specs[i] = spec])
        /\ Suspend(FreeP, "done_write",
                   [IdleProc EXCEPT !.url = m.xfer[h].url, !.id = spec.id,
                      !.h = h, !.snap = spec])

\* the transfer of task h completes: the file is on disk, done fires
TaskDone(h) ==
  /\ h \in 1..Len(xfer)
  /\ xfer[h].st = "DOWNLOADING"
  /\ files' = files \cup {pathFromId(xfer[h].id, extensionFromUri(xfer[h].url))}
  /\ LET m == [This EXCEPT !.xfer[h].st = IF xfer[h].cb THEN "ENDED" ELSE "DONE"] IN
     IF xfer[h].cb THEN DoneCallback(m, h)
     ELSE Commit(m) /\ UNCHANGED proc
  /\ UNCHANGED <<inited, handlers, activeNetworkTypes, netInfoFetchState,
                 netInfoUnsubscriber, store, now, net, nextId>>

\* a task that was stopped (detached) reports done all the same
RogueDone(h) ==
  /\ h \in 1..Len(xfer)
  /\ xfer[h].st = "STOPPED"
  /\ xfer[h].cb
  /\ DoneCallback([This EXCEPT !.xfer[h].cb = FALSE, !.xfer[h].st = "ENDED"], h)
  /\ UNCHANGED <<inited, handlers, activeNetworkTypes, netInfoFetchState,
                 netInfoUnsubscriber, store, files, now, net, nextId>>

\* the done callback after `await this.kvfs.write`: completeHandler, onDone
DoneWriteResume(p) ==
  /\ proc[p].pc = "done_write"
  /\ store' = kvWrite(store, proc[p].snap)
  /\ Commit(Notify(This, "onDone", proc[p].h, proc[p].url))
  /\ Finish(p)
  /\ UNCHANGED <<inited, handlers, activeNetworkTypes, netInfoFetchState,
                 netInfoUnsubscriber, files, now, net, nextId>>

\* the error callback of task h
ErrorCallback(m, h) ==
  LET id == m.xfer[h].id
      m1 == Notify(removeTask(m, id), "onError", h, m.xfer[h].url)
  IN ensureErrorTimerOn([m1 EXCEPT !.erroredIds = @ \cup {id}])

\* the transfer of task h fails: error fires
TaskError(h) ==
  /\ h \in 1..Len(xfer)
  /\ xfer[h].st = "DOWNLOADING"
  /\ LET m == [This EXCEPT !.xfer[h].st = IF xfer[h].cb THEN "ENDED" ELSE "FAILED"] IN
     IF xfer[h].cb THEN Commit(ErrorCallback(m, h)) ELSE Commit(m)
  /\ UNCHANGED <<inited, handlers, activeNetworkTypes, netInfoFetchState,
                 netInfoUnsubscriber, store, files, now, net, nextId, proc>>

\* a task that was stopped (detached) reports an error all the same
RogueError(h) ==
  /\ h \in 1..Len(xfer)
  /\ xfer[h].st = "STOPPED"
  /\ xfer[h].cb
  /\ Commit(ErrorCallback([This EXCEPT !.xfer[h].cb = FALSE,
                                        !.xfer[h].st = "ENDED"], h))
  /\ UNCHANGED <<inited, handlers, activeNetworkTypes, netInfoFetchState,
                 netInfoUnsubscriber, store, files, now, net, nextId, proc>>

\* (the test of retryErroredTasks not looking for a registered task)
shouldRetry_anyway(m, id) ==
  LET i == indexOfId(m.specs, id) IN
  /\ i > 0
  /\ ~m.specs[i].finished
  /\ m.specs[i].createTime > 0

\* ---------------------------------------------------------------- retry
\* the test of retryErroredTasks for one id
shouldRetry(m, id) ==
  LET i == indexOfId(m.specs, id) IN
  /\ taskIndexOf(m, id) = 0
  /\ i > 0
  /\ ~m.specs[i].finished
  /\ m.specs[i].createTime > 0

RECURSIVE retryEach(_, _)
retryEach(m, ids) ==
  IF ids = <<>> THEN m
  ELSE retryEach(IF shouldRetry(m, Head(ids))
                 THEN start(m, m.specs[indexOfId(m.specs, Head(ids))])
                 ELSE m,
                 Tail(ids))

\* retryErroredTasks()
retryErroredTasks(m) == retryEach(m, SetToSeq(m.erroredIds))

\* an interval timer fires
RetryFire ==
  /\ intervals > 0
  /\ Commit(retryErroredTasks(This))
  /\ UNCHANGED <<inited, handlers, activeNetworkTypes, netInfoFetchState,
                 netInfoUnsubscriber, store, files, now, net, nextId, proc>>

\* (the filter of deleteExpiredSpecs taking every lazily deleted record that
\* has a deadline, whatever the deadline)
isExpired_anyDeadline(spec, basisTimestamp) == spec.createTime < 0

\* ------------------------------------------------------ deletion timers
\* the filter of deleteExpiredSpecs(basisTimestamp)
isExpired(spec, basisTimestamp) ==
  spec.createTime < 0 /\ -spec.createTime <= basisTimestamp

expiredAt(ss, basisTimestamp) ==
  {i \in 1..Len(ss) : isExpired(ss[i], basisTimestamp)}

\* this.specs.filter(spec => !delIds.has(spec.id))
dropIds(ss, delIds) == SelectSeq(ss, LAMBDA spec : spec.id \notin delIds)

\* a deletion timer whose time has come fires: deleteExpiredSpecs(wakeUpTime)
\* up to its await (with nothing to delete it is over at once)
DeletionFire(k) ==
  /\ k \in 1..Len(timers)
  /\ timers[k] <= now
  /\ LET toDelete == expiredAt(specs, timers[k])
         m == [This EXCEPT !.timers = RemoveAt(@, k)]
     IN IF toDelete = {} THEN Commit(m) /\ UNCHANGED proc
        ELSE /\ FreeP # 0
             /\ Commit(m)
             /\ Suspend(FreeP, "del_wait",
                        [IdleProc EXCEPT !.dels = {PathOf(specs[i]) : i \in toDelete}])
  /\ UNCHANGED <<inited, handlers, activeNetworkTypes, netInfoFetchState,
                 netInfoUnsubscriber, store, files, now, net, nextId>>

\* deleteExpiredSpecs after its rm and unlink calls
DeletionResume(p) ==
  /\ proc[p].pc = "del_wait"
  /\ LET delIds == {f.id : f \in proc[p].dels} IN
     /\ store' = kvRm(store, delIds)
     /\ files' = files \ proc[p].dels
     /\ Commit([This EXCEPT !.specs = dropIds(@, delIds)])
  /\ Finish(p)
  /\ UNCHANGED <<inited, handlers, activeNetworkTypes, netInfoFetchState,
                 netInfoUnsubscriber, now, net, nextId>>

\* time passes
Tick ==
  /\ now < MaxTime
  /\ now' = now + 1
  /\ out' = <<>>
  /\ UNCHANGED <<specs, tasks, inited, handlers, active, erroredIds, errorTimer,
                 intervals,
                 wouldAutoPause, isPausedByUser, activeNetworkTypes,
                 netInfoFetchState, netInfoUnsubscriber, store, files, xfer,
                 timers, net, nextId, proc>>


\* ------------------------------------------------------- pause / resume
\* this.tasks.forEach(task => void task.pause()), and so for resume and stop
RECURSIVE pauseEach(_, _)
pauseEach(m, hs) ==
  IF hs = <<>> THEN m ELSE pauseEach(pause(m, Head(hs)), Tail(hs))

RECURSIVE resumeEach(_, _)
resumeEach(m, hs) ==
  IF hs = <<>> THEN m ELSE resumeEach(resume(m, Head(hs)), Tail(hs))

RECURSIVE stopEach(_, _)
stopEach(m, hs) ==
  IF hs = <<>> THEN m ELSE stopEach(stop(m, Head(hs)), Tail(hs))

\* pauseAllInternal()
pauseAllInternal(m) ==
  clearErrorTimer(pauseEach([m EXCEPT !.active = FALSE], m.tasks))

\* (resumeAllInternal leaving the retry timer as the pause left it)
resumeAllInternal_noTimer(m) ==
  resumeEach([m EXCEPT !.active = TRUE], m.tasks)

\* resumeAllInternal()
resumeAllInternal(m) ==
  LET m1 == resumeEach([m EXCEPT !.active = TRUE], m.tasks)
  IN IF m1.erroredIds # {} THEN ensureErrorTimerOn(m1) ELSE m1

\* (the decision with an empty allow-list allowing no network type)
shouldAutoPause_emptyBlocks(state, types) ==
  ~state.isConnected \/ state.type \notin types

\* the decision of onNetInfoChanged
shouldAutoPause(state, types) ==
  ~state.isConnected \/ (types # {} /\ state.type \notin types)

\* (onNetInfoChanged acting on every event, changed decision or not)
onNetInfoChanged_everyEvent(m, types, state) ==
  LET should == shouldAutoPause(state, types)
      m1 == [m EXCEPT !.wouldAutoPause = should]
  IN IF ~m1.isPausedByUser
     THEN (IF should THEN pauseAllInternal(m1) ELSE resumeAllInternal(m1))
     ELSE m1

\* (onNetInfoChanged acting on a changed decision whoever paused)
onNetInfoChanged_ignoreUserPause(m, types, state) ==
  LET should == shouldAutoPause(state, types) IN
  IF should = m.wouldAutoPause THEN m
  ELSE LET m1 == [m EXCEPT !.wouldAutoPause = should] IN
       IF should THEN pauseAllInternal(m1) ELSE resumeAllInternal(m1)

\* onNetInfoChanged(state)
onNetInfoChanged(m, types, state) ==
  LET should == shouldAutoPause(state, types) IN
  IF should = m.wouldAutoPause THEN m
  ELSE LET m1 == [m EXCEPT !.wouldAutoPause = should] IN
       IF ~m1.isPausedByUser
       THEN (IF should THEN pauseAllInternal(m1) ELSE resumeAllInternal(m1))
       ELSE m1

\* ------------------------------------------------------------------ init
\* init's options: startActive, and one of these network configurations
\*   none: no network callbacks       net: both callbacks, no allow-list
\*   wifi: both callbacks, ["wifi"]   bad: ["wifi"] without the callbacks
optTypes(nopt) == IF nopt \in {"wifi", "bad"} THEN {"wifi"} ELSE {}
optListener(nopt) == nopt \in {"net", "wifi"}

\* checkForExistingDownloads(): the transfers the provider still holds
reported(xf) ==
  SelectSeq([h \in 1..Len(xf) |-> h],
            LAMBDA h : xf[h].st \in {"DOWNLOADING", "PAUSED", "DONE", "FAILED"})

\* ... which forgets one that had ended once init has dealt with its task
afterReport(xf, h) ==
  [xf EXCEPT ![h].st = IF @ \in {"DONE", "FAILED"} THEN "ENDED" ELSE @]

\* the specs init purges
\* (init purging by deadline only, keeping the delete-at-next-init specs)
isPurged_deadlineOnly(spec, t) ==
  spec.createTime < 0 /\ -spec.createTime <= t

\* a spec init purges: deletion at next init, or a deadline that has passed
isPurged(spec, t) ==
  spec.createTime = 0 \/ (spec.createTime < 0 /\ -spec.createTime <= t)

\* (reviveTask taking a task up again for a lazily deleted record as well)
revivable_lazyToo(m, h) ==
  LET i == indexOfId(m.specs, m.xfer[h].id) IN
  i > 0 /\ ~m.specs[i].finished

\* whether reviveTask takes a task up again
revivable(m, h) ==
  LET i == indexOfId(m.specs, m.xfer[h].id) IN
  i > 0 /\ ~m.specs[i].finished /\ m.specs[i].createTime > 0

\* reviveTask(task) up to its await
reviveTask(m, h) ==
  LET i == indexOfId(m.specs, m.xfer[h].id)
      st == m.xfer[h].st
      r == IF revivable(m, h) THEN
             LET spec == m.specs[i]
                 begun == Notify(m, "onBegin", h, spec.url)
             IN CASE st = "DOWNLOADING" ->
                       addTask(IF ~m.active THEN pause(begun, h) ELSE begun, h)
                  [] st = "PAUSED" ->
                       addTask(IF m.active THEN resume(begun, h) ELSE begun, h)
                  [] st = "DONE" -> Notify(begun, "onDone", h, spec.url)
                  [] st = "STOPPED" -> start(m, spec)
                  [] OTHER ->
                       ensureErrorTimerOn(
                         [Notify(m, "onError", h, spec.url)
                            EXCEPT !.erroredIds = @ \cup {m.xfer[h].id}])
           ELSE IF st \in {"DOWNLOADING", "PAUSED"} THEN stop(m, h) ELSE m
  IN [r EXCEPT !.xfer = afterReport(@, h)]

\* the partial file reviveTask(task) unlinks in its other branch
reviveUnlinks(m, h) ==
  LET i == indexOfId(m.specs, m.xfer[h].id) IN
  IF ~revivable(m, h) /\ m.xfer[h].st \in {"DOWNLOADING", "PAUSED"}
     /\ i > 0 /\ ~m.specs[i].finished
  THEN {PathOf(m.specs[i])} ELSE {}

RECURSIVE reviveAll(_, _)
reviveAll(m, hs) ==
  IF hs = <<>> THEN m ELSE reviveAll(reviveTask(m, Head(hs)), Tail(hs))

RECURSIVE unlinksAll(_, _)
unlinksAll(m, hs) ==
  IF hs = <<>> THEN {}
  ELSE reviveUnlinks(m, Head(hs)) \cup unlinksAll(reviveTask(m, Head(hs)), Tail(hs))

\* the specs init starts a fresh transfer for
needsDownload(m, spec, existing) ==
  /\ \A k \in 1..Len(existing) : m.xfer[existing[k]].id # spec.id
  /\ ~spec.finished

RECURSIVE startEach(_, _)
startEach(m, ss) ==
  IF ss = <<>> THEN m ELSE startEach(start(m, Head(ss)), Tail(ss))

\* a directory entry init takes for an orphan: its whole name is no spec's id
isOrphan(ss, filename) ==
  ~\E i \in 1..Len(ss) : filename.ext = "" /\ ss[i].id = filename.id

InitResult(m, pc, L, done, types, fetch, reloaded) ==
  [m |-> m, pc |-> pc, L |-> L, inited |-> done, types |-> types,
   fetch |-> fetch, reloaded |-> reloaded]

\* init from scheduleDeletions on: the option checks, then the first fetch
initTail(m, L, reloaded) ==
  LET m1 == scheduleDeletions(m,
              SelectSeq(m.specs, LAMBDA spec : -spec.createTime > L.t0))
      m2 == [m1 EXCEPT !.wouldAutoPause = FALSE]
  IN IF L.nopt = "bad"
     THEN InitResult(Emit(m2, "throw", 0, ""), "idle", L, FALSE,
                     activeNetworkTypes, netInfoFetchState, reloaded)
     ELSE IF optListener(L.nopt)
     THEN InitResult(m2, "init_fetch", L, FALSE, optTypes(L.nopt), TRUE, reloaded)
     ELSE InitResult(m2, "idle", L, TRUE, optTypes(L.nopt), FALSE, reloaded)

\* init from "start downloads for specs that haven't finished" on
initAfterRevive(m, L, reloaded) ==
  LET specsToDownload ==
        SelectSeq(m.specs, LAMBDA spec : needsDownload(m, spec, L.existing))
      m1 == startEach(m, specsToDownload)
      orphanedFiles == {f \in L.dir : isOrphan(m1.specs, f)}
  IN IF orphanedFiles # {}
     THEN InitResult(m1, "init_orphans", [L EXCEPT !.dels = orphanedFiles],
                     FALSE, activeNetworkTypes, netInfoFetchState, reloaded)
     ELSE initTail(m1, L, reloaded)

\* init from `this.specs = loadedSpecs.filter(...)` on
initAfterRm(m, L) ==
  LET m1 == [m EXCEPT
               !.specs = SelectSeq(L.loaded, LAMBDA spec : ~isPurged(spec, L.t0)),
               !.active = L.sa,
               !.isPausedByUser = ~L.sa]
      m2 == reviveAll(m1, L.existing)
      unlinks == unlinksAll(m1, L.existing)
  IN IF unlinks # {}
     THEN InitResult(m2, "init_revive", [L EXCEPT !.dels = unlinks],
                     FALSE, activeNetworkTypes, netInfoFetchState, TRUE)
     ELSE initAfterRevive(m2, L, TRUE)

\* what a stretch of init leaves behind.  Once init has replaced this.specs,
\* the other calls' references are to objects this.specs no longer holds.
ApplyInit(p, r) ==
  /\ Commit(r.m)
  /\ inited' = r.inited
  /\ activeNetworkTypes' = r.types
  /\ netInfoFetchState' = r.fetch
  /\ proc' = [q \in Procs |->
                IF q = p
                THEN (IF r.pc = "idle" THEN IdleProc ELSE [r.L EXCEPT !.pc = r.pc])
                ELSE IF r.reloaded /\ proc[q].id # 0
                THEN [proc[q] EXCEPT !.stale = TRUE]
                ELSE proc[q]]

\* init(options) up to its first await
InitCall(startActive, nopt) ==
  IF inited THEN Throws("already initialized") ELSE
  /\ FreeP # 0
  /\ handlers' = TRUE
  /\ Commit(This)
  /\ Suspend(FreeP, "init_read",
             [IdleProc EXCEPT !.sa = startActive, !.nopt = nopt])
  /\ UNCHANGED <<inited, activeNetworkTypes, netInfoFetchState,
                 netInfoUnsubscriber, store, files, now, net, nextId>>

\* the persisted specs in key order
loadedSpecs(st) == [k \in 1..Cardinality(DOMAIN st) |-> st[SetToSeq(DOMAIN st)[k]]]

\* init after mkdir and the three reads: the purge is issued
InitRead(p) ==
  /\ proc[p].pc = "init_read"
  /\ LET L == [proc[p] EXCEPT !.loaded = loadedSpecs(store),
                              !.existing = reported(xfer),
                              !.dir = files, !.t0 = now]
         m == This
     IN IF \E i \in 1..Len(L.loaded) : isPurged(L.loaded[i], now)
        THEN ApplyInit(p, InitResult(m, "init_rm", L, FALSE, activeNetworkTypes,
                                     netInfoFetchState, FALSE))
        ELSE ApplyInit(p, initAfterRm(m, L))
  /\ UNCHANGED <<handlers, netInfoUnsubscriber, store, files, now, net, nextId>>

\* init after mkdir and the three reads, RNFS.readdir having thrown:
\* getDirFilenames catches and returns []
InitReadNoDir(p) ==
  /\ proc[p].pc = "init_read"
  /\ LET L == [proc[p] EXCEPT !.loaded = loadedSpecs(store),
                              !.existing = reported(xfer),
                              !.dir = {}, !.t0 = now]
         m == This
     IN IF \E i \in 1..Len(L.loaded) : isPurged(L.loaded[i], now)
        THEN ApplyInit(p, InitResult(m, "init_rm", L, FALSE, activeNetworkTypes,
                                     netInfoFetchState, FALSE))
        ELSE ApplyInit(p, initAfterRm(m, L))
  /\ UNCHANGED <<handlers, netInfoUnsubscriber, store, files, now, net, nextId>>

\* init after the purged specs' kvfs.rm
InitRmResume(p) ==
  /\ proc[p].pc = "init_rm"
  /\ store' = kvRm(store, {proc[p].loaded[i].id : i \in
                             {j \in 1..Len(proc[p].loaded) :
                                isPurged(proc[p].loaded[j], proc[p].t0)}})
  /\ ApplyInit(p, initAfterRm(This, proc[p]))
  /\ UNCHANGED <<handlers, netInfoUnsubscriber, files, now, net, nextId>>

\* init after the reviveTask calls, their unlinks done.  reviveTask unlinks
\* only for a transfer still running for a lazily deleted, unfinished spec;
\* SpecRevive is the specification that gets there.
InitReviveResume(p) ==
  /\ proc[p].pc = "init_revive"
  /\ files' = files \ proc[p].dels
  /\ ApplyInit(p, initAfterRevive(This, proc[p], FALSE))
  /\ UNCHANGED <<handlers, netInfoUnsubscriber, store, now, net, nextId>>

\* init after the orphaned files' unlink
InitOrphansResume(p) ==
  /\ proc[p].pc = "init_orphans"
  /\ files' = files \ proc[p].dels
  /\ ApplyInit(p, initTail(This, proc[p], FALSE))
  /\ UNCHANGED <<handlers, netInfoUnsubscriber, store, now, net, nextId>>

\* init at `await Promise.all(orphanedFiles.map(...))` when an RNFS.unlink
\* promise rejects: the try/catch inside the map callback only covers the
\* synchronous call, so the rejection is init's; the other unlinks land
InitOrphansReject(p) ==
  /\ proc[p].pc = "init_orphans"
  /\ \E gone \in SUBSET (proc[p].dels \cap files) :
       /\ gone # proc[p].dels
       /\ files' = files \ gone
  /\ ApplyInit(p, InitResult(Emit(This, "throw", 0, ""), "idle", proc[p], FALSE,
                             activeNetworkTypes, netInfoFetchState, FALSE))
  /\ UNCHANGED <<handlers, netInfoUnsubscriber, store, now, net, nextId>>

\* init after `await this.netInfoFetchState()`: first decision, subscription
InitFetchResume(p) ==
  /\ proc[p].pc = "init_fetch"
  /\ Commit(onNetInfoChanged(This, activeNetworkTypes, net))
  /\ netInfoUnsubscriber' = TRUE
  /\ inited' = TRUE
  /\ Finish(p)
  /\ UNCHANGED <<handlers, activeNetworkTypes, netInfoFetchState, store, files, now,
                 net, nextId>>

\* terminate()
Terminate ==
  /\ Commit(clearErrorTimer([stopEach([This EXCEPT !.active = FALSE], tasks)
               EXCEPT !.tasks = <<>>, !.specs = <<>>, !.erroredIds = {}]))
  /\ inited' = FALSE
  /\ handlers' = FALSE
  /\ netInfoUnsubscriber' = FALSE
  /\ UNCHANGED <<activeNetworkTypes, netInfoFetchState, store, files, now,
                 net, nextId, proc>>


\* the app is killed and launched again: a new DownloadQueue object, no call
\* or timer of the old one left; storage, provider and (unless the platform
\* flushed them) the files stay
Relaunch ==
  /\ specs' = <<>>
  /\ tasks' = <<>>
  /\ inited' = FALSE
  /\ handlers' = FALSE
  /\ active' = TRUE
  /\ erroredIds' = {}
  /\ errorTimer' = FALSE
  /\ intervals' = 0
  /\ wouldAutoPause' = FALSE
  /\ isPausedByUser' = FALSE
  /\ activeNetworkTypes' = {}
  /\ netInfoFetchState' = FALSE
  /\ netInfoUnsubscriber' = FALSE
  /\ timers' = <<>>
  /\ proc' = [p \in Procs |-> IdleProc]
  /\ queue' = NoQueue
  /\ out' = <<>>
  /\ xfer' = [h \in 1..Len(xfer) |->
                [xfer[h] EXCEPT !.cb = FALSE,
                                !.st = IF @ = "STOPPED" THEN "ENDED" ELSE @]]
  /\ UNCHANGED <<store, files, now, net, nextId>>

\* the platform flushes the files (a new build installed, a cache cleared)
FilesFlushed ==
  /\ files # {}
  /\ files' = {}
  /\ out' = <<>>
  /\ UNCHANGED <<specs, tasks, inited, handlers, active, erroredIds, errorTimer,
                 intervals,
                 wouldAutoPause, isPausedByUser, activeNetworkTypes,
                 netInfoFetchState, netInfoUnsubscriber, store, xfer, timers,
                 now, net, nextId, proc>>

\* ---------------------------------------------------------------- setQueue
QueueArgs == {<<>>, <<"u">>, <<"v">>, <<"u", "v">>}

\* the spec object setQueue holds in specsToRemove, as it is now: the element
\* of this.specs while it is one, else as setQueue found it
heldNow(m, spec) ==
  LET i == indexOfId(m.specs, spec.id) IN IF i > 0 THEN m.specs[i] ELSE spec

\* setQueue has returned: nothing is left of its frame but the urls it was
\* called with
Returned(q) == [NoQueue EXCEPT !.urls = q.urls]

\* setQueue from one await to the next: the next removeUrlInternal, then
\* scheduleDeletions(specsToRemove) and the next addUrl, with q what is left
setQueueLoop(q) ==
  IF q.rm # <<>> THEN
     /\ removeUrlInternal(This, q.p, Head(q.rm), q.dt, FALSE)
     /\ queue' = [q EXCEPT !.rm = Tail(@)]
     /\ UNCHANGED nextId
  ELSE
     LET m == IF q.sched THEN This
              ELSE scheduleDeletions(This, [k \in 1..Len(q.removed) |->
                                              heldNow(This, q.removed[k])])
     IN IF q.add # <<>> THEN
           /\ addUrl(m, q.p, Head(q.add))
           /\ queue' = IF verifyInitialized
                       THEN [q EXCEPT !.add = Tail(@), !.sched = TRUE]
                       ELSE Returned(q)
        ELSE
           /\ Commit(m)
           /\ queue' = Returned(q)
           /\ UNCHANGED <<proc, nextId>>

\* (setQueue removing every record whose url is not in urls)
specsToRemove_any(ss, urlSet) ==
  SelectSeq(ss, LAMBDA spec : spec.url \notin urlSet)

\* this.specs.filter(spec => !urlSet.has(spec.url) && spec.createTime > 0)
specsToRemove(ss, urlSet) ==
  SelectSeq(ss, LAMBDA spec : spec.url \notin urlSet /\ spec.createTime > 0)

\* setQueue(urls, deleteTime) up to its first await
SetQueue(urls, deleteTime) ==
  IF ~verifyInitialized THEN Throws("not initialized") /\ UNCHANGED queue ELSE
  /\ FreeP # 0
  /\ ~queue.on
  /\ LET urlSet == {urls[k] : k \in 1..Len(urls)}
         liveUrls == {specs[i].url : i \in {j \in 1..Len(specs) :
                                               specs[j].createTime > 0}}
         urlsToAdd == SelectSeq(urls, LAMBDA url : url \notin liveUrls)
         toRemove == specsToRemove(specs, urlSet)
         urlsToRemove == [k \in 1..Len(toRemove) |-> toRemove[k].url]
     IN setQueueLoop([on |-> TRUE, p |-> FreeP, urls |-> urls,
                      rm |-> urlsToRemove, add |-> urlsToAdd,
                      removed |-> toRemove, dt |-> deleteTime,
                      sched |-> FALSE])
  /\ UNCHANGED <<inited, handlers, activeNetworkTypes, netInfoFetchState,
                 netInfoUnsubscriber, store, files, now, net>>

\* setQueue after the removeUrlInternal or addUrl it awaited
SetQueueNext ==
  /\ queue.on
  /\ proc[queue.p].pc = "idle"
  /\ setQueueLoop(queue)
  /\ UNCHANGED <<inited, handlers, activeNetworkTypes, netInfoFetchState,
                 netInfoUnsubscriber, store, files, now, net>>

\* --------------------------------------------------------------- queries
\* specs.find(spec => spec.url === url && spec.createTime > 0), 0 if none
liveIndexOfUrl(ss, url) ==
  LET hit == {i \in 1..Len(ss) : ss[i].url = url /\ ss[i].createTime > 0}
  IN IF hit = {} THEN 0 ELSE Min(hit)

\* (the filter of getQueueStatus letting every spec through)
liveSpecs_all(ss) == ss

\* this.specs.filter(spec => spec.createTime > 0)
liveSpecs(ss) == SelectSeq(ss, LAMBDA spec : spec.createTime > 0)

\* a DownloadQueueStatus, as the event that returns it
statusOf(m, k, spec, complete) ==
  Emit(m, IF complete THEN k \o ":complete" ELSE k \o ":incomplete",
       spec.id, spec.url)

\* getStatus(url) up to `await RNFS.exists`, which an unfinished spec never
\* reaches
GetStatus(url) ==
  IF ~verifyInitialized THEN Throws("not initialized") ELSE
  /\ LET i == liveIndexOfUrl(specs, url) IN
     IF i = 0 THEN
        Commit(Emit(This, "status:null", 0, url)) /\ UNCHANGED proc
     ELSE IF ~specs[i].finished THEN
        Commit(statusOf(This, "status", specs[i], FALSE)) /\ UNCHANGED proc
     ELSE
        /\ FreeP # 0
        /\ Commit(This)
        /\ Suspend(FreeP, "status_exists",
                   [IdleProc EXCEPT !.url = url, !.id = specs[i].id,
                                    !.snap = specs[i]])
  /\ UNCHANGED <<inited, handlers, activeNetworkTypes, netInfoFetchState,
                 netInfoUnsubscriber, store, files, now, net, nextId>>

\* getStatus after RNFS.exists
StatusResume(p) ==
  /\ proc[p].pc = "status_exists"
  /\ Commit(statusOf(This, "status", proc[p].snap, PathOf(proc[p].snap) \in files))
  /\ Finish(p)
  /\ UNCHANGED <<inited, handlers, activeNetworkTypes, netInfoFetchState,
                 netInfoUnsubscriber, store, files, now, net, nextId>>

\* the array getQueueStatus resolves to, one event per entry
RECURSIVE statusEach(_, _, _)
statusEach(m, ss, fs) ==
  IF ss = <<>> THEN m
  ELSE statusEach(statusOf(m, "queued", Head(ss),
                           Head(ss).finished /\ PathOf(Head(ss)) \in fs),
                  Tail(ss), fs)

\* getQueueStatus() up to `await Promise.all`
GetQueueStatus ==
  IF ~verifyInitialized THEN Throws("not initialized") ELSE
  /\ FreeP # 0
  /\ Commit(This)
  /\ Suspend(FreeP, "queue_exists", [IdleProc EXCEPT !.loaded = liveSpecs(specs)])
  /\ UNCHANGED <<inited, handlers, activeNetworkTypes, netInfoFetchState,
                 netInfoUnsubscriber, store, files, now, net, nextId>>

\* getQueueStatus after the RNFS.exists of its finished specs
QueueStatusResume(p) ==
  /\ proc[p].pc = "queue_exists"
  /\ Commit(statusEach(This, proc[p].loaded, files))
  /\ Finish(p)
  /\ UNCHANGED <<inited, handlers, activeNetworkTypes, netInfoFetchState,
                 netInfoUnsubscriber, store, files, now, net, nextId>>

\* getAvailableUrl(url) up to `await RNFS.exists`; the event's handle is the id
\* of the spec whose path is returned, 0 when the url itself is returned
GetAvailableUrl(url) ==
  IF ~verifyInitialized THEN Throws("not initialized") ELSE
  /\ LET i == indexOfUrl(specs, url) IN
     IF i = 0 \/ ~specs[i].finished THEN
        Commit(Emit(This, "available", 0, url)) /\ UNCHANGED proc
     ELSE
        /\ FreeP # 0
        /\ Commit(This)
        /\ Suspend(FreeP, "avail_exists",
                   [IdleProc EXCEPT !.url = url, !.id = specs[i].id,
                                    !.snap = specs[i]])
  /\ UNCHANGED <<inited, handlers, activeNetworkTypes, netInfoFetchState,
                 netInfoUnsubscriber, store, files, now, net, nextId>>

\* getAvailableUrl after RNFS.exists
AvailResume(p) ==
  /\ proc[p].pc = "avail_exists"
  /\ Commit(Emit(This, "available",
                 IF PathOf(proc[p].snap) \in files THEN proc[p].id ELSE 0,
                 proc[p].url))
  /\ Finish(p)
  /\ UNCHANGED <<inited, handlers, activeNetworkTypes, netInfoFetchState,
                 netInfoUnsubscriber, store, files, now, net, nextId>>

\* ------------------------------------------------------------ user pause
\* pauseAll()
PauseAll ==
  IF ~verifyInitialized THEN Throws("not initialized") ELSE
  /\ Commit(pauseAllInternal([This EXCEPT !.isPausedByUser = TRUE]))
  /\ UNCHANGED <<inited, handlers, activeNetworkTypes, netInfoFetchState,
                 netInfoUnsubscriber, store, files, now, net, nextId, proc>>

\* (resumeAll resuming whatever the network decision)
ResumeAll_regardless ==
  IF ~verifyInitialized THEN Throws("not initialized") ELSE
  /\ Commit(resumeAllInternal([This EXCEPT !.isPausedByUser = FALSE]))
  /\ UNCHANGED <<inited, handlers, activeNetworkTypes, netInfoFetchState,
                 netInfoUnsubscriber, store, files, now, net, nextId, proc>>

\* resumeAll()
ResumeAll ==
  IF ~verifyInitialized THEN Throws("not initialized") ELSE
  /\ LET m == [This EXCEPT !.isPausedByUser = FALSE] IN
     Commit(IF ~m.wouldAutoPause THEN resumeAllInternal(m) ELSE m)
  /\ UNCHANGED <<inited, handlers, activeNetworkTypes, netInfoFetchState,
                 netInfoUnsubscriber, store, files, now, net, nextId, proc>>

\* ---------------------------------------------------------- connectivity
NetStates == {[isConnected |-> TRUE, type |-> "wifi"],
              [isConnected |-> TRUE, type |-> "cellular"],
              [isConnected |-> FALSE, type |-> "none"]}

\* the Network Monitor reports a state; a subscribed listener hands it to
\* onNetInfoChanged
NetEvent(state) ==
  /\ net' = state
  /\ IF netInfoUnsubscriber
     THEN Commit(onNetInfoChanged(This, activeNetworkTypes, state))
     ELSE Commit(This)
  /\ UNCHANGED <<inited, handlers, activeNetworkTypes, netInfoFetchState,
                 netInfoUnsubscriber, store, files, now, nextId, proc>>

\* ------------------------------------------------- setActiveNetworkTypes
TypeLists == {{}, {"wifi"}}

\* setActiveNetworkTypes(types) up to `await this.netInfoFetchState()`; it
\* throws, the types assigned, when init was given no netInfoFetchState
SetActiveNetworkTypes(types) ==
  IF ~verifyInitialized THEN Throws("not initialized") ELSE
  /\ activeNetworkTypes' = types
  /\ IF netInfoFetchState
     THEN /\ FreeP # 0
          /\ Commit(This)
          /\ Suspend(FreeP, "types_fetch", IdleProc)
     ELSE /\ Commit(Emit(This, "throw", 0, "no netInfoFetchState"))
          /\ UNCHANGED proc
  /\ UNCHANGED <<inited, handlers, netInfoFetchState, netInfoUnsubscriber,
                 store, files, now, net, nextId>>

\* setActiveNetworkTypes after the fetch: onNetInfoChanged(state)
TypesFetchResume(p) ==
  /\ proc[p].pc = "types_fetch"
  /\ Commit(onNetInfoChanged(This, activeNetworkTypes, net))
  /\ Finish(p)
  /\ UNCHANGED <<inited, handlers, activeNetworkTypes, netInfoFetchState,
                 netInfoUnsubscriber, store, files, now, net, nextId>>

\* ------------------------------------------------------- specifications
\* the state after `new DownloadQueue()` on a fresh install
Constructed ==
  /\ specs = <<>>
  /\ tasks = <<>>
  /\ inited = FALSE
  /\ handlers = FALSE
  /\ active = TRUE
  /\ erroredIds = {}
  /\ errorTimer = FALSE
  /\ intervals = 0
  /\ wouldAutoPause = FALSE
  /\ isPausedByUser = FALSE
  /\ activeNetworkTypes = {}
  /\ netInfoFetchState = FALSE
  /\ netInfoUnsubscriber = FALSE
  /\ store = [i \in {} |-> NoSpec]
  /\ files = {}
  /\ xfer = <<>>
  /\ timers = <<>>
  /\ now = 1
  /\ net = [isConnected |-> TRUE, type |-> "wifi"]
  /\ nextId = 1
  /\ proc = [p \in Procs |-> IdleProc]
  /\ out = <<>>
  /\ queue = NoQueue

\* a call of the public API: the caller's budget pays for it
NoCall == [op |-> "", url |-> ""]
Call(A, op, url) ==
  /\ calls > 0
  /\ A
  /\ calls' = calls - 1
  /\ last' = [op |-> op, url |-> url]
  /\ UNCHANGED <<slots, queue>>

\* ... a call that starts or ends a setQueue
CallQ(A, op) ==
  /\ calls > 0
  /\ A
  /\ calls' = calls - 1
  /\ last' = [op |-> op, url |-> ""]
  /\ UNCHANGED slots

\* a step of the engine or of its environment
Step(A) == A /\ last' = NoCall /\ UNCHANGED <<calls, slots, queue>>

\* ... a step of the setQueue in flight
StepQ(A) == A /\ last' = NoCall /\ UNCHANGED <<calls, slots>>

\* what happens within one launch, without a Network Monitor
Life ==
  \/ \E p \in Procs : Step(InitRead(p))
  \/ \E p \in Procs : Step(InitRmResume(p))
  \/ \E p \in Procs : Step(InitOrphansResume(p))
  \/ \E url \in Urls : Call(AddUrl(url), "addUrl", url)
  \/ \E p \in Procs : Step(AddNewResume(p))
  \/ \E p \in Procs : Step(AddReviveResume(p))
  \/ \E p \in Procs : Step(AddStatResume(p))
  \/ \E url \in Urls, deleteTime \in DeleteTimes :
        Call(RemoveUrl(url, deleteTime), "removeUrl", url)
  \/ \E p \in Procs : Step(RmWillResume(p))
  \/ \E p \in Procs : Step(RmWriteResume(p))
  \/ \E p \in Procs : Step(RmRmResume(p))
  \/ \E p \in Procs : Step(RmUnlinkResume(p))
  \/ \E h \in 1..MaxHandles : Step(TaskDone(h))
  \/ \E h \in 1..MaxHandles : Step(RogueDone(h))
  \/ \E p \in Procs : Step(DoneWriteResume(p))
  \/ \E h \in 1..MaxHandles : Step(TaskError(h))
  \/ \E h \in 1..MaxHandles : Step(RogueError(h))
  \/ Step(RetryFire)
  \/ \E k \in 1..MaxTimers : Step(DeletionFire(k))
  \/ \E p \in Procs : Step(DeletionResume(p))
  \/ Step(FilesFlushed)
  \/ Step(Tick)

\* one launch, calls overlapping at their awaits
Init == Constructed /\ calls = MaxCalls /\ last = NoCall /\ slots = 2

Next ==
  \/ \E sa \in BOOLEAN : Call(InitCall(sa, "none"), "init", "")
  \/ Life

Spec == Init /\ [][Next]_vars

\* several launches and inits, one call suspended at a time
InitBoot == Constructed /\ calls = MaxCallsBoot /\ last = NoCall /\ slots = 1

NextBoot ==
  \/ \E sa \in BOOLEAN, nopt \in {"none", "bad"} : Call(InitCall(sa, nopt), "init", "")
  \/ Call(Terminate, "terminate", "")
  \/ CallQ(Relaunch, "relaunch")
  \/ Life

SpecBoot == InitBoot /\ [][NextBoot]_vars

\* one launch with a Network Monitor, one call suspended at a time
InitNet == Constructed /\ calls = MaxCallsNet /\ last = NoCall /\ slots = 1

NextNet ==
  \/ \E sa \in BOOLEAN, nopt \in {"net", "wifi"} : Call(InitCall(sa, nopt), "init", "")
  \/ \E p \in Procs : Step(InitRead(p))
  \/ \E p \in Procs : Step(InitFetchResume(p))
  \/ \E url \in Urls : Call(AddUrl(url), "addUrl", url)
  \/ \E p \in Procs : Step(AddNewResume(p))
  \/ \E state \in NetStates : Step(NetEvent(state))
  \/ Call(PauseAll, "pauseAll", "")
  \/ Call(ResumeAll, "resumeAll", "")

SpecNet == InitNet /\ [][NextNet]_vars

\* one launch after another with every public method, one call suspended at a
\* time
InitQuery == Constructed /\ calls = MaxCallsQuery /\ last = NoCall /\ slots = 1

NextQuery ==
  \/ \E sa \in BOOLEAN, nopt \in {"none", "net", "bad"} :
        Call(InitCall(sa, nopt), "init", "")
  \/ \E p \in Procs : Step(InitRead(p))
  \/ \E p \in Procs : Step(InitFetchResume(p))
  \/ \E p \in Procs : Step(InitRmResume(p))
  \/ \E p \in Procs : Step(InitOrphansResume(p))
  \/ Call(Terminate, "terminate", "")
  \/ \E url \in Urls : Call(AddUrl(url), "addUrl", url)
  \/ \E p \in Procs : Step(AddNewResume(p))
  \/ \E p \in Procs : Step(AddReviveResume(p))
  \/ \E p \in Procs : Step(AddStatResume(p))
  \/ \E url \in Urls, deleteTime \in DeleteTimes :
        Call(RemoveUrl(url, deleteTime), "removeUrl", url)
  \/ \E p \in Procs : Step(RmWillResume(p))
  \/ \E p \in Procs : Step(RmWriteResume(p))
  \/ \E p \in Procs : Step(RmRmResume(p))
  \/ \E p \in Procs : Step(RmUnlinkResume(p))
  \/ \E h \in 1..MaxHandles : Step(TaskDone(h))
  \/ \E p \in Procs : Step(DoneWriteResume(p))
  \/ Step(FilesFlushed)
  \/ \E urls \in QueueArgs, deleteTime \in DeleteTimes :
        CallQ(SetQueue(urls, deleteTime), "setQueue")
  \/ StepQ(SetQueueNext)
  \/ \E url \in Urls : Call(GetStatus(url), "getStatus", url)
  \/ \E p \in Procs : Step(StatusResume(p))
  \/ Call(GetQueueStatus, "getQueueStatus", "")
  \/ \E p \in Procs : Step(QueueStatusResume(p))
  \/ \E url \in Urls : Call(GetAvailableUrl(url), "getAvailableUrl", url)
  \/ \E p \in Procs : Step(AvailResume(p))
  \/ Call(PauseAll, "pauseAll", "")
  \/ Call(ResumeAll, "resumeAll", "")
  \/ \E types \in TypeLists :
        Call(SetActiveNetworkTypes(types), "setActiveNetworkTypes", "")
  \/ \E p \in Procs : Step(TypesFetchResume(p))

SpecQuery == InitQuery /\ [][NextQuery]_vars

\* several launches with failing transfers, the retry timer, pauses and a
\* Network Monitor, one call suspended at a time
InitRetry == Constructed /\ calls = MaxCallsRetry /\ last = NoCall /\ slots = 1

NextRetry ==
  \/ \E sa \in BOOLEAN, nopt \in {"none", "wifi"} :
        Call(InitCall(sa, nopt), "init", "")
  \/ \E p \in Procs : Step(InitRead(p))
  \/ \E p \in Procs : Step(InitRmResume(p))
  \/ \E p \in Procs : Step(InitOrphansResume(p))
  \/ \E p \in Procs : Step(InitFetchResume(p))
  \/ Call(Terminate, "terminate", "")
  \/ CallQ(Relaunch, "relaunch")
  \/ \E url \in Urls : Call(AddUrl(url), "addUrl", url)
  \/ \E p \in Procs : Step(AddNewResume(p))
  \/ \E p \in Procs : Step(AddNewReject(p))
  \/ \E p \in Procs : Step(AddReviveResume(p))
  \/ \E p \in Procs : Step(AddStatResume(p))
  \/ \E url \in Urls, deleteTime \in DeleteTimes :
        Call(RemoveUrl(url, deleteTime), "removeUrl", url)
  \/ \E p \in Procs : Step(RmWillResume(p))
  \/ \E p \in Procs : Step(RmWriteResume(p))
  \/ \E p \in Procs : Step(RmRmResume(p))
  \/ \E p \in Procs : Step(RmUnlinkResume(p))
  \/ \E h \in 1..MaxHandles : Step(TaskDone(h))
  \/ \E p \in Procs : Step(DoneWriteResume(p))
  \/ \E h \in 1..MaxHandles : Step(TaskError(h))
  \/ \E h \in 1..MaxHandles : Step(RogueError(h))
  \/ Step(RetryFire)
  \/ Call(PauseAll, "pauseAll", "")
  \/ Call(ResumeAll, "resumeAll", "")
  \/ \E state \in NetStates : Step(NetEvent(state))

SpecRetry == InitRetry /\ [][NextRetry]_vars

\* one launch with failing transfers, retries and pauses, in which what was
\* started comes to an end: the retry interval fires again and again, a
\* running transfer reports done or error, an awaited promise settles
InitLive == Constructed /\ calls = MaxCallsLive /\ last = NoCall /\ slots = 1

Settles(p) ==
  \/ Step(InitRead(p))
  \/ Step(AddNewResume(p))
  \/ Step(AddReviveResume(p))
  \/ Step(AddStatResume(p))
  \/ Step(RmWillResume(p))
  \/ Step(RmWriteResume(p))
  \/ Step(RmRmResume(p))
  \/ Step(RmUnlinkResume(p))
  \/ Step(DoneWriteResume(p))

Reports(h) == Step(TaskDone(h)) \/ Step(TaskError(h))

NextLive ==
  \/ \E sa \in BOOLEAN : Call(InitCall(sa, "none"), "init", "")
  \/ \E url \in Urls : Call(AddUrl(url), "addUrl", url)
  \/ \E url \in Urls, deleteTime \in DeleteTimes :
        Call(RemoveUrl(url, deleteTime), "removeUrl", url)
  \/ Call(PauseAll, "pauseAll", "")
  \/ Call(ResumeAll, "resumeAll", "")
  \/ \E p \in Procs : Settles(p)
  \/ \E h \in 1..MaxHandles : Reports(h)
  \/ Step(RetryFire)

FairLive ==
  /\ WF_vars(Step(RetryFire))
  /\ \A h \in 1..MaxHandles : WF_vars(Reports(h))
  /\ \A p \in Procs : WF_vars(Settles(p))

SpecLive == InitLive /\ [][NextLive]_vars /\ FairLive

\* ------------------------------------------------------------------ claims
\* C1: once the engine is initialized there is at most one record per url in
\* memory and at most one per url in the persisted store, also while addUrl
\* calls for the same new url overlap at their awaits.
C1_OneRecordPerUrl ==
  inited =>
    /\ \A i, j \in 1..Len(specs) : specs[i].url = specs[j].url => i = j
    /\ \A a, b \in DOMAIN store : store[a].url = store[b].url => a = b

\* C2: with the calls awaited in turn, addUrl(u) while an active record for u
\* exists changes nothing, and the addUrl that made this record persisted one
\* record and started one transfer: two addUrl(u) in turn leave one record,
\* one store entry and one transfer.
C2_AddActiveIsNoOp ==
  [][/\ \A url \in Urls :
          (/\ AddUrl(url)
           /\ \E i \in 1..Len(specs) :
                 specs[i].url = url /\ specs[i].createTime > 0)
          => UNCHANGED <<specs, tasks, store, files, xfer, timers, erroredIds,
                         errorTimer, nextId, proc>>
     /\ \A p \in Procs :
          AddNewResume(p)
          => /\ Len(specs') = Len(specs) + 1
             /\ Cardinality(DOMAIN store') = Cardinality(DOMAIN store) + 1
             /\ Len(xfer') = Len(xfer) + 1
             /\ Len(tasks') = Len(tasks) + 1]_vars

\* the second of two addUrl("u") made in turn has returned
C2_Witness ==
  /\ last = [op |-> "addUrl", url |-> "u"]
  /\ \A p \in Procs : proc[p].pc = "idle"
  /\ Len(specs) = 1 /\ specs[1].url = "u" /\ specs[1].createTime > 0
  /\ Cardinality(DOMAIN store) = 1
  /\ Len(xfer) = 1 /\ tasks = <<1>>

\* the record of id has been removed: lazily deleted, or gone from memory
Removed(id) ==
  \A i \in 1..Len(specs) : specs[i].id = id => specs[i].createTime <= 0

\* C3: a done callback fired by a task that removeUrl has detached returns at
\* once: it changes no record (so no finished flag), no registered task, and
\* leaves nothing behind that would write a persisted entry or invoke onDone.
C3_RogueDoneIsInert ==
  [][\A h \in 1..MaxHandles :
        (RogueDone(h) /\ Removed(xfer[h].id))
        => /\ specs' = specs
           /\ tasks' = tasks
           /\ proc' = proc
           /\ \A k \in 1..Len(out') : out'[k].k # "onDone"]_vars

\* no record of id is left in memory
Gone(id) == \A i \in 1..Len(specs) : specs[i].id # id

\* C4: an error callback fired by a task whose record has been removed (no
\* record of its id is left) has no effect: no onError, no id added to
\* erroredIds, the retry timer not armed.
C4_RogueErrorIsInert ==
  [][\A h \in 1..MaxHandles :
        (RogueError(h) /\ Gone(xfer[h].id))
        => /\ erroredIds' = erroredIds
           /\ errorTimer' = errorTimer
           /\ \A k \in 1..Len(out') : out'[k].k # "onError"]_vars

\* the registered tasks of the record with this id
TasksOf(id) == {k \in 1..Len(tasks) : xfer[tasks[k]].id = id}

\* those of them whose transfer is live: running or paused
LiveTasksOf(id) ==
  {k \in TasksOf(id) : xfer[tasks[k]].st \in {"DOWNLOADING", "PAUSED"}}

\* C5: no record with createTime <= 0 has a registered live task; in particular
\* init starts no transfer for a lazily-deleted record.
C5_NoTaskForLazyDeleted ==
  \A i \in 1..Len(specs) : specs[i].createTime <= 0 => LiveTasksOf(specs[i].id) = {}

\* C6: at most one task is registered per record id, whatever addUrl, retry
\* firings, init reconciliation or an init after a failed init have done.
C6_OneTaskPerRecord ==
  \A k, l \in 1..Len(tasks) : xfer[tasks[k]].id = xfer[tasks[l]].id => k = l

\* C7: no record with finished = true has a registered live task, also after
\* addUrl has revived a lazily-deleted record and after a done callback has run.
C7_NoTaskForFinished ==
  \A i \in 1..Len(specs) : specs[i].finished => LiveTasksOf(specs[i].id) = {}

\* the suspended call p takes the step
Acting(p) == proc[p].pc # "idle" /\ proc'[p] # proc[p]

\* the step is one of an init
InitStep ==
  \E p \in Procs : Acting(p) /\ proc[p].pc \in {"init_read", "init_rm",
                                                "init_revive", "init_orphans"}

\* the step is one of a removeUrl call that names the record id
RemovalStepOf(id) ==
  \E p \in Procs : Acting(p) /\ proc[p].id = id
                   /\ proc[p].pc \in {"rm_will", "rm_write", "rm_rm", "rm_unlink"}

\* the record id is to be deleted at the next init
AtNextInit(id) ==
  \/ id \in DOMAIN store /\ store[id].createTime = 0
  \/ \E i \in 1..Len(specs) : specs[i].id = id /\ specs[i].createTime = 0

\* the step deletes neither the persisted entry of id nor its file
Kept(id) ==
  /\ id \in DOMAIN store => id \in DOMAIN store'
  /\ \A f \in files : f.id = id => f \in files'

Deadline(id) ==
  IF id \in DOMAIN store /\ store[id].createTime < 0
  THEN -store[id].createTime ELSE 0

\* removeUrl(u, T), T ahead, schedules exactly one deletion, at T or later
C9_OneTimer ==
  \A p \in Procs :
    (RmWriteResume(p) /\ proc[p].dt > now)
    => \E t \in proc[p].dt..(proc[p].dt + MinuteMs) : timers' = Insert(timers, t)

\* before T no step deletes the persisted entry or the file, unless a later
\* removeUrl names the record (or the platform flushes the files)
C9_NotBefore ==
  \A id \in 1..MaxIds :
    (Deadline(id) > now /\ ~RemovalStepOf(id) /\ ~FilesFlushed) => Kept(id)

\* the deletion a timer started removes entry, file and in-memory record
C9_TimerRemoves ==
  \A p \in Procs :
    DeletionResume(p)
    => \A f \in proc[p].dels :
          f \notin files' /\ f.id \notin DOMAIN store'
          /\ \A i \in 1..Len(specs') : specs'[i].id # f.id

\* an init after T removes the entry, loads no record of it and unlinks the file
C9_InitRemoves ==
  \A p \in Procs :
    InitRmResume(p)
    => \A id \in DOMAIN store :
          (Deadline(id) > 0 /\ Deadline(id) <= proc[p].t0)
          => /\ id \notin DOMAIN store'
             /\ \A i \in 1..Len(specs') : specs'[i].id # id
             /\ \A f \in proc[p].dir :
                  f.id = id => proc'[p].pc = "init_orphans" /\ f \in proc'[p].dels

\* C9: after removeUrl(u, T) with T in the future and no later addUrl(u),
\* exactly one deletion is scheduled for u, the record and its file are not
\* deleted before time T, and the firing timer, or the first init after T,
\* removes the persisted entry, the in-memory record and the file.
C9_DeletedAtDeadline ==
  [][C9_OneTimer /\ C9_NotBefore /\ C9_TimerRemoves /\ C9_InitRemoves]_vars

\* the decision for a connectivity state under the configured allow-list
Blocked(state) == ~state.isConnected \/ state.type \notin activeNetworkTypes

\* one command of this kind for each registered task, in order
ToEachTask(k) == [i \in 1..Len(tasks) |-> Ev(k, tasks[i], "")]

\* C10: with an allow-list configured, the listener subscribed and the user
\* not paused, a connectivity event that turns the decision from allowed to
\* not allowed pauses each registered task exactly once, one that turns it back
\* resumes each registered task exactly once, and one that leaves the decision
\* as it was issues no command at all.
C10_PauseResumeOnce ==
  [][\A state \in NetStates :
        (/\ NetEvent(state)
         /\ netInfoUnsubscriber
         /\ activeNetworkTypes # {}
         /\ ~isPausedByUser)
        => /\ (~Blocked(net) /\ Blocked(state)) => out' = ToEachTask("pause")
           /\ (Blocked(net) /\ ~Blocked(state)) => out' = ToEachTask("resume")
           /\ (Blocked(net) = Blocked(state)) => out' = <<>>]_vars

\* the network is back on the allow-list after having left it: the paused
\* tasks have each been resumed once by the connectivity event
C10_Witness ==
  /\ last = NoCall
  /\ netInfoUnsubscriber
  /\ activeNetworkTypes = {"wifi"}
  /\ ~isPausedByUser
  /\ net = [isConnected |-> TRUE, type |-> "wifi"]
  /\ Len(tasks) = 2
  /\ out = <<Ev("resume", tasks[1], ""), Ev("resume", tasks[2], "")>>
  /\ \A k \in 1..Len(tasks) : xfer[tasks[k]].st = "DOWNLOADING"

\* the connectivity decision for a state: auto-pause when disconnected, or when
\* an allow-list is configured and the type is not on it
AutoPauseFor(state) ==
  ~state.isConnected \/ (activeNetworkTypes # {} /\ state.type \notin activeNetworkTypes)

\* C11: while the user has paused (pauseAll, or init with startActive = false)
\* a connectivity event issues no pause and no resume; resumeAll resumes each
\* registered task at once iff the decision for the latest connectivity state is
\* not auto-pause, and otherwise issues nothing, the tasks being resumed by the
\* next connectivity event whose decision is not auto-pause.
C11_UserPauseWins ==
  [][/\ \A state \in NetStates :
          (NetEvent(state) /\ netInfoUnsubscriber /\ isPausedByUser)
          => out' = <<>> /\ xfer' = xfer /\ isPausedByUser'
     /\ (ResumeAll /\ netInfoUnsubscriber)
          => /\ ~isPausedByUser'
             /\ ~AutoPauseFor(net) => out' = ToEachTask("resume")
             /\ AutoPauseFor(net) => out' = <<>> /\ xfer' = xfer
     /\ \A state \in NetStates :
          (/\ NetEvent(state) /\ netInfoUnsubscriber /\ ~isPausedByUser
           /\ AutoPauseFor(net) /\ ~AutoPauseFor(state))
          => out' = ToEachTask("resume")]_vars

\* resumeAll was called off the allow-list: nothing was resumed, the task
\* stays paused
C11_Witness ==
  /\ last = [op |-> "resumeAll", url |-> ""]
  /\ netInfoUnsubscriber
  /\ activeNetworkTypes = {"wifi"}
  /\ net = [isConnected |-> TRUE, type |-> "cellular"]
  /\ ~isPausedByUser
  /\ Len(tasks) >= 1
  /\ \A k \in 1..Len(tasks) : xfer[tasks[k]].st = "PAUSED"
  /\ out = <<>>

\* the active records of url that are finished and whose file is on disk
CompleteRecords(url) ==
  {i \in 1..Len(specs) : /\ specs[i].url = url
                         /\ specs[i].createTime > 0
                         /\ specs[i].finished
                         /\ PathOf(specs[i]) \in files}

\* C12: getAvailableUrl(u) on an initialized engine returns the record's local
\* path exactly when the record of u is active, finished and its file exists;
\* for an unknown url, an unfinished record, a missing file or a lazily
\* deleted record it returns u itself.
C12_AvailableIffComplete ==
  [][\A url \in Urls :
        (/\ inited
         /\ Len(out') = 1
         /\ out'[1].k = "available"
         /\ out'[1].u = url)
        => /\ out'[1].h # 0 <=> CompleteRecords(url) # {}
           /\ out'[1].h # 0 => \E i \in CompleteRecords(url) :
                                    specs[i].id = out'[1].h]_vars

\* the active records (createTime > 0) of url, and all of them in order
ActiveRecords(url) ==
  {i \in 1..Len(specs) : specs[i].url = url /\ specs[i].createTime > 0}

AllActive == SelectSeq(specs, LAMBDA spec : spec.createTime > 0)

\* what a status query has to say of an active record
ExpectedStatus(k, spec) ==
  Ev(IF spec.finished /\ PathOf(spec) \in files
     THEN k \o ":complete" ELSE k \o ":incomplete", spec.id, spec.url)

\* C13: on an initialized engine getStatus(u) returns null iff u has no active
\* record (unknown or lazily deleted) and otherwise the active record's status
\* with complete = finished and file exists; getQueueStatus() returns one entry
\* for each active record, none for a lazily deleted one, with complete computed
\* the same way, so that its entry for u is what getStatus(u) returns.
C13_StatusOfActiveOnly ==
  [][/\ \A url \in Urls :
          (/\ inited
           /\ Len(out') = 1
           /\ out'[1].k \in {"status:null", "status:complete", "status:incomplete"}
           /\ out'[1].u = url)
          => IF ActiveRecords(url) = {} THEN out'[1].k = "status:null"
             ELSE \E i \in ActiveRecords(url) :
                     out'[1] = ExpectedStatus("status", specs[i])
     /\ \A p \in Procs :
          (inited /\ QueueStatusResume(p))
          => out' = [j \in 1..Len(AllActive) |->
                       ExpectedStatus("queued", AllActive[j])]]_vars

\* getQueueStatus has returned one complete entry while a lazily deleted
\* record is also held in memory
C13_Witness ==
  /\ inited
  /\ last = NoCall
  /\ Len(specs) = 2
  /\ \E i, j \in 1..2 :
        /\ specs[i].createTime <= 0
        /\ specs[j].createTime > 0
        /\ out = <<Ev("queued:complete", specs[j].id, specs[j].url)>>

\* the public methods that verify initialization first
GuardedOps == {"addUrl", "removeUrl", "setQueue", "getStatus", "getQueueStatus",
               "getAvailableUrl", "pauseAll", "resumeAll", "setActiveNetworkTypes"}

NotInitializedError == <<Ev("throw", 0, "not initialized")>>

\* C14: a call of addUrl, removeUrl, setQueue, getStatus, getQueueStatus,
\* getAvailableUrl, pauseAll, resumeAll or setActiveNetworkTypes made while the
\* engine is uninitialized (before the first init, after a failed init, after
\* terminate) throws the not-initialized error and changes nothing; made on an
\* initialized engine it does not throw that error.
C14_UninitializedCallsFail ==
  [][last'.op \in GuardedOps
     => IF ~inited
        THEN /\ out' = NotInitializedError
             /\ UNCHANGED <<specs, tasks, inited, handlers, active, erroredIds,
                            errorTimer, wouldAutoPause, isPausedByUser,
                            activeNetworkTypes, netInfoFetchState,
                            netInfoUnsubscriber, store, files, xfer, timers,
                            nextId, proc, queue>>
        ELSE out' # NotInitializedError]_vars

\* after an init and a terminate, with records in the store, addUrl has been
\* refused
C14_Witness ==
  /\ ~inited
  /\ last.op = "addUrl"
  /\ out = NotInitializedError
  /\ DOMAIN store # {}
  /\ specs = <<>>
  /\ \A p \in Procs : proc[p].pc = "idle"

\* an init call is suspended at one of its awaits
InitInFlight ==
  \E p \in Procs : proc[p].pc \in {"init_read", "init_rm", "init_revive",
                                    "init_orphans", "init_fetch"}

\* C15: within one lifecycle (no terminate in between) an init called after an
\* earlier init has completed, or while an earlier init is still awaiting,
\* fails with the already-initialized error and starts no second
\* reconciliation.
C15_SecondInitFails ==
  [][(last'.op = "init" /\ (inited \/ InitInFlight))
     => /\ out' = <<Ev("throw", 0, "already initialized")>>
        /\ proc' = proc]_vars

\* the engine holds nothing: no record, no registered task, no retry, no
\* timer, and no transfer it had registered is still live
HoldsNothing ==
  /\ specs = <<>>
  /\ tasks = <<>>
  /\ erroredIds = {}
  /\ ~errorTimer
  /\ timers = <<>>
  /\ \A h \in 1..Len(xfer) : xfer[h].cb => xfer[h].st \notin {"DOWNLOADING", "PAUSED"}

\* C16: when terminate() returns every registered task has been stopped and
\* the engine holds no in-memory record, no registered task, no armed retry
\* timer and no pending deletion timer; and it stays so until the next init is
\* called, whatever call or callback was in flight at the terminate.
C16_TerminateLeavesNothing ==
  [][/\ last'.op = "terminate" => HoldsNothing'
     /\ (HoldsNothing /\ ~inited /\ ~InitInFlight /\ last'.op # "init")
        => HoldsNothing']_vars

\* what the persisted records and the files on disk make of url: its active
\* record is finished and the record's file exists
PersistedComplete(url) ==
  \E id \in DOMAIN store : /\ store[id].url = url
                           /\ store[id].createTime > 0
                           /\ store[id].finished
                           /\ PathOf(store[id]) \in files

\* the complete value getStatus(url) would return now
StatusComplete(url) ==
  /\ liveIndexOfUrl(specs, url) # 0
  /\ specs[liveIndexOfUrl(specs, url)].finished
  /\ PathOf(specs[liveIndexOfUrl(specs, url)]) \in files

\* no call is suspended
Quiet == ~queue.on /\ \A p \in Procs : proc[p].pc = "idle"

\* the step is one of an init, up to the one that completes it
AnyInitStep ==
  \E p \in Procs : Acting(p) /\ proc[p].pc \in {"init_read", "init_rm",
                                "init_revive", "init_orphans", "init_fetch"}

\* C17: terminate changes no persisted record and no file, and a url's
\* complete value survives terminate followed by a fresh init: what
\* getStatus reports before terminate is what the persisted records and the
\* files say, no step of the init changes that, and it is what getStatus
\* reports once the init has completed (no terminate having cut in: terminate
\* drops the handlers the init took).
C17_TerminateInitRoundTrip ==
  [][/\ last'.op = "terminate" => store' = store /\ files' = files
     /\ \A url \in Urls :
          /\ (last'.op = "terminate" /\ inited /\ Quiet)
             => (StatusComplete(url) <=> PersistedComplete(url))
          /\ AnyInitStep => (PersistedComplete(url)' <=> PersistedComplete(url))
          /\ (AnyInitStep /\ handlers /\ ~inited /\ inited')
             => (StatusComplete(url)' <=> PersistedComplete(url)')]_vars

\* the urls a setQueue call was given
UrlSet(q) == {q.urls[k] : k \in 1..Len(q.urls)}

\* the urls that have an active record
ActiveUrls(ss) == {ss[i].url : i \in {j \in 1..Len(ss) : ss[j].createTime > 0}}

\* the step is one of a setQueue call: the call itself, its loop going on, or
\* the removeUrlInternal or addUrl it awaits
QueueStep ==
  \/ last'.op = "setQueue"
  \/ queue.on /\ (queue' # queue \/ Acting(queue.p))

\* the step is the one setQueue returns with, the engine initialized
QueueDone ==
  /\ inited'
  /\ ~queue'.on
  /\ queue.on \/ (last'.op = "setQueue" /\ inited)

\* the record is, in memory and in the Record Store, active (act) or lazily
\* deleted (~act)
Landed(spec, act) ==
  /\ (spec.createTime > 0) = act
  /\ spec.id \in DOMAIN store
  /\ (store[spec.id].createTime > 0) = act

\* the step leaves the record as it is, in memory and in the Record Store,
\* with its file
RecordUntouched(spec) ==
  /\ \E j \in 1..Len(specs') : specs'[j] = spec
  /\ spec.id \in DOMAIN store' /\ store'[spec.id] = store[spec.id]
  /\ PathOf(spec) \in files => PathOf(spec) \in files'

\* the step neither registers nor drops a task for the record, changes no
\* transfer of it and sends none a command
TaskUntouched(spec) ==
  /\ \A h \in 1..Len(xfer) : xfer[h].id = spec.id => xfer'[h] = xfer[h]
  /\ \A h \in 1..Len(xfer') : xfer'[h].id = spec.id => h <= Len(xfer)
  /\ SelectSeq(tasks', LAMBDA h : xfer'[h].id = spec.id)
       = SelectSeq(tasks, LAMBDA h : xfer[h].id = spec.id)
  /\ \A k \in 1..Len(out') :
        out'[k].h # 0 => xfer'[out'[k].h].id # spec.id

\* the record setQueue found to remove is removed as deleteTime says: marked
\* with it in memory and in the Record Store, or gone with its file
RemovedWith(spec, deleteTime) ==
  IF deleteTime >= 0
  THEN /\ \E j \in 1..Len(specs') :
             specs'[j].id = spec.id /\ specs'[j].createTime = -deleteTime
       /\ spec.id \in DOMAIN store'
       /\ store'[spec.id].createTime = -deleteTime
  ELSE /\ \A j \in 1..Len(specs') : specs'[j].id # spec.id
       /\ spec.id \notin DOMAIN store'
       /\ PathOf(spec) \notin files'

\* C18: with the calls awaited in turn, when setQueue(urls, deleteTime)
\* returns the urls with an active record are exactly urls, and each record it
\* found active with a url outside urls is removed as deleteTime says; no step
\* of the call touches an active record whose url is in urls or its task, or
\* a lazily deleted record whose url is not in urls, and none gives a url a
\* second record (a lazily deleted record of a url in urls is revived).
C18_SetQueue ==
  [][/\ QueueDone =>
          /\ ActiveUrls(specs') = UrlSet(queue')
          /\ \A k \in 1..Len(queue.removed) :
                RemovedWith(queue.removed[k], queue.dt)
     /\ (QueueStep /\ inited) =>
          \A i \in 1..Len(specs) :
             /\ (Landed(specs[i], TRUE) /\ specs[i].url \in UrlSet(queue'))
                => RecordUntouched(specs[i]) /\ TaskUntouched(specs[i])
             /\ (Landed(specs[i], FALSE) /\ specs[i].url \notin UrlSet(queue'))
                => RecordUntouched(specs[i])
             /\ \A j \in 1..Len(specs') :
                   specs'[j].url = specs[i].url
                   => \E n \in 1..Len(specs) : specs[n].id = specs'[j].id]_vars

\* setQueue(<<"v">>, 0) has returned: it removed the active "u" lazily and
\* added "v", whose transfer is registered
C18_Witness ==
  /\ inited
  /\ ~queue.on
  /\ queue.urls = <<"v">>
  /\ last = NoCall
  /\ Len(specs) = 2
  /\ specs[1].url = "u" /\ specs[1].createTime = 0
  /\ specs[2].url = "v" /\ specs[2].createTime > 0
  /\ \E k \in 1..Len(tasks) : xfer[tasks[k]].id = specs[2].id

\* C19: at most one retry timer runs at any time; while RetrySet is empty
\* none runs; while the engine is active and RetrySet is not empty one runs.
C19_OneRetryTimer ==
  /\ intervals <= 1
  /\ erroredIds = {} => intervals = 0
  /\ (active /\ erroredIds # {}) => intervals = 1

\* two ids are in RetrySet after two errors, one timer running
C19_Witness ==
  /\ active
  /\ Cardinality(erroredIds) = 2
  /\ intervals = 1

\* the engine is initialized and paused, whoever paused it
Paused == inited /\ ~active

\* C20: while the engine is paused no retry timer runs and a firing of the
\* retry timer starts no transfer; pausing leaves RetrySet as it is; a step
\* that resumes the engine leaves a retry timer running exactly if RetrySet
\* is not empty.
C20_NoRetryWhilePaused ==
  [][/\ Paused' => intervals' = 0
     /\ (RetryFire /\ ~active) => xfer' = xfer
     /\ (inited /\ active /\ Paused') => erroredIds' = erroredIds
     /\ (Paused /\ active') => (intervals' = 1 <=> erroredIds' # {})]_vars

\* the ids in RetrySet a firing of the retry timer is to restart: the record
\* is in memory, active and unfinished, and no task is registered for it
Retriable ==
  {id \in erroredIds :
     /\ TasksOf(id) = {}
     /\ \E i \in 1..Len(specs) : /\ specs[i].id = id
                                 /\ specs[i].createTime > 0
                                 /\ ~specs[i].finished}

\* the transfers the step starts
Started == (1..Len(xfer')) \ (1..Len(xfer))

\* the registered tasks of id after the step
TasksAfter(id) == {k \in 1..Len(tasks') : xfer'[tasks'[k]].id = id}

\* C21: a firing of the retry timer starts one transfer for each id of
\* RetrySet whose record is in memory, active and unfinished and that has no
\* registered task, and no other transfer; it registers the transfers it
\* starts and gives no id a task more where it had one.
C21_RetryStartsExactly ==
  [][RetryFire =>
       /\ {xfer'[h].id : h \in Started} = Retriable
       /\ Cardinality(Started) = Cardinality(Retriable)
       /\ \A h \in Started : \E k \in 1..Len(tasks') : tasks'[k] = h
       /\ \A id \in 1..MaxIds :
             TasksOf(id) # {} => Cardinality(TasksAfter(id)) = Cardinality(TasksOf(id))]_vars

\* the retry timer has fired and restarted the errored record: its new
\* transfer is the second one of the record
C21_Witness ==
  /\ inited
  /\ intervals = 1
  /\ last = NoCall
  /\ Len(out) >= 1
  /\ out[1].k = "download"
  /\ out[1].h = 2
  /\ xfer[2].id \in erroredIds
  /\ xfer[1].id = xfer[2].id

\* the record id is in memory, active and unfinished
Wanting(id) ==
  \E i \in 1..Len(specs) : /\ specs[i].id = id
                           /\ specs[i].createTime > 0
                           /\ ~specs[i].finished

\* the records a transfer is about to be started for: by the next firing of
\* the retry timer, or by an addUrl that is suspended
Due ==
  Retriable \cup {proc[p].id : p \in {q \in Procs :
                                        proc[q].pc \in {"add_new", "add_revive"}}}

\* the Download Provider of the model can still take the transfers that are due
Room == Len(xfer) + Cardinality(Due) <= MaxHandles

\* the record id is left without a transfer on an active engine
Stranded(id) ==
  /\ inited /\ active
  /\ Wanting(id)
  /\ LiveTasksOf(id) = {}
  /\ Room

\* a transfer of the record is under way again, or the record no longer
\* wants one, or the engine was paused, or no further transfer can start
Served(id) ==
  \/ LiveTasksOf(id) # {}
  \/ ~Wanting(id)
  \/ ~active
  \/ ~Room

C23_InactiveMeansPaused ==
  ~active =>
     \A k \in 1..Len(tasks) :
        /\ xfer[tasks[k]].st # "DOWNLOADING"
        /\ k \in LiveTasksOf(xfer[tasks[k]].id) => xfer[tasks[k]].st = "PAUSED"

\* two tasks are registered on an initialized, inactive engine, the first
\* transfer among them, and both are paused
C23_Witness ==
  /\ inited
  /\ ~active
  /\ Len(tasks) = 2
  /\ tasks[1] = 1
  /\ \A k \in 1..2 : xfer[tasks[k]].st = "PAUSED"

\* the suspended addUrl of a new url goes on after its write
AddNewStep(p) == Acting(p) /\ proc[p].pc = "add_new" /\ last' = NoCall

\* the step is one of an addUrl for a url that has no record: the call, or
\* the call going on after its write
NewUrlStep ==
  \/ /\ last'.op = "addUrl"
     /\ inited
     /\ indexOfUrl(specs, last'.url) = 0
  \/ \E p \in Procs : AddNewStep(p)

\* the ids of the records in memory
IdsOf(ss) == {ss[i].id : i \in 1..Len(ss)}

\* C24: addUrl of a new url adds the record to memory and starts its transfer
\* only in a step that finds the record's write to the Record Store
\* completed; when the write fails addUrl fails, and neither a record nor a
\* transfer nor a task is added.
C24_PersistBeforeStart ==
  [][NewUrlStep =>
       /\ \A h \in Started : xfer'[h].id \in DOMAIN store'
       /\ \A id \in IdsOf(specs') \ IdsOf(specs) : id \in DOMAIN store'
       /\ \A p \in Procs :
            (AddNewStep(p) /\ proc[p].id \notin DOMAIN store')
            => /\ specs' = specs /\ tasks' = tasks /\ xfer' = xfer
               /\ \E k \in 1..Len(out') : out'[k].k = "throw"]_vars

\* a first addUrl failed at its write and left nothing; a second one went
\* through: its record, the second id drawn, is persisted and its transfer,
\* the first one, was just started
C24_Witness ==
  /\ inited
  /\ Len(specs) = 1
  /\ specs[1].id = 2
  /\ DOMAIN store = {2}
  /\ Len(xfer) = 1
  /\ Len(out) >= 1
  /\ out[1].k = "download"

\* one launch in which two calls may be suspended at the same time: urls are
\* added, their transfers complete, and they are removed at once (eager)
InitOverlap ==
  Constructed /\ calls = MaxCallsOverlap /\ last = NoCall /\ slots = 2

NextOverlap ==
  \/ Call(InitCall(TRUE, "none"), "init", "")
  \/ \E p \in Procs : Step(InitRead(p))
  \/ \E url \in Urls : Call(AddUrl(url), "addUrl", url)
  \/ \E p \in Procs : Step(AddNewResume(p))
  \/ \E url \in Urls : Call(RemoveUrl(url, -1), "removeUrl", url)
  \/ \E p \in Procs : Step(RmWillResume(p))
  \/ \E p \in Procs : Step(RmRmResume(p))
  \/ \E p \in Procs : Step(RmUnlinkResume(p))
  \/ \E h \in 1..MaxHandles : Step(TaskDone(h))
  \/ \E p \in Procs : Step(DoneWriteResume(p))

SpecOverlap == InitOverlap /\ [][NextOverlap]_vars

\* one launch with lazy removals whose deadlines lie in different minutes,
\* time passing and the deletion timers firing, one call suspended at a time
ExpiryDeleteTimes == {0, 2, 4}

InitExpiry ==
  Constructed /\ calls = MaxCallsExpiry /\ last = NoCall /\ slots = 1

NextExpiry ==
  \/ Call(InitCall(TRUE, "none"), "init", "")
  \/ \E p \in Procs : Step(InitRead(p))
  \/ \E url \in Urls : Call(AddUrl(url), "addUrl", url)
  \/ \E p \in Procs : Step(AddNewResume(p))
  \/ \E p \in Procs : Step(AddReviveResume(p))
  \/ \E p \in Procs : Step(AddStatResume(p))
  \/ \E url \in Urls, deleteTime \in ExpiryDeleteTimes :
        Call(RemoveUrl(url, deleteTime), "removeUrl", url)
  \/ \E p \in Procs : Step(RmWillResume(p))
  \/ \E p \in Procs : Step(RmWriteResume(p))
  \/ \E h \in 1..MaxHandles : Step(TaskDone(h))
  \/ \E p \in Procs : Step(DoneWriteResume(p))
  \/ \E k \in 1..MaxTimers : Step(DeletionFire(k))
  \/ \E p \in Procs : Step(DeletionResume(p))
  \/ Step(Tick)

SpecExpiry == InitExpiry /\ [][NextExpiry]_vars

\* several launches around one url, two calls suspended at a time: a removal
\* may overlap a revival, so that a launch can find a transfer of the
\* provider whose record is gone, lazily deleted or finished; init is called
\* with no other call in flight
InitRevive ==
  Constructed /\ calls = MaxCallsRevive /\ last = NoCall /\ slots = 2

NextRevive ==
  \/ /\ \A q \in Procs : proc[q].pc = "idle"
     /\ \E sa \in BOOLEAN : Call(InitCall(sa, "none"), "init", "")
  \/ \E p \in Procs : Step(InitRead(p))
  \/ \E p \in Procs : Step(InitRmResume(p))
  \/ \E p \in Procs : Step(InitReviveResume(p))
  \/ \E p \in Procs : Step(InitOrphansResume(p))
  \/ CallQ(Relaunch, "relaunch")
  \/ Call(AddUrl("u"), "addUrl", "u")
  \/ \E p \in Procs : Step(AddNewResume(p))
  \/ \E p \in Procs : Step(AddReviveResume(p))
  \/ \E p \in Procs : Step(AddStatResume(p))
  \/ \E deleteTime \in DeleteTimes :
        Call(RemoveUrl("u", deleteTime), "removeUrl", "u")
  \/ \E p \in Procs : Step(RmWillResume(p))
  \/ \E p \in Procs : Step(RmWriteResume(p))
  \/ \E p \in Procs : Step(RmRmResume(p))
  \/ \E p \in Procs : Step(RmUnlinkResume(p))
  \/ \E h \in 1..MaxHandles : Step(TaskDone(h))
  \/ \E p \in Procs : Step(DoneWriteResume(p))

SpecRevive == InitRevive /\ [][NextRevive]_vars

\* several launches in which the file system may fail init: the listing of
\* the domain directory throws, or the unlink of an orphan rejects; one call
\* suspended at a time
InitFaults ==
  Constructed /\ calls = MaxCallsFaults /\ last = NoCall /\ slots = 1

NextFaults ==
  \/ \E sa \in BOOLEAN : Call(InitCall(sa, "none"), "init", "")
  \/ \E p \in Procs : Step(InitRead(p))
  \/ \E p \in Procs : Step(InitReadNoDir(p))
  \/ \E p \in Procs : Step(InitOrphansResume(p))
  \/ \E p \in Procs : Step(InitOrphansReject(p))
  \/ CallQ(Relaunch, "relaunch")
  \/ \E url \in Urls : Call(AddUrl(url), "addUrl", url)
  \/ \E p \in Procs : Step(AddNewResume(p))
  \/ \E h \in 1..MaxHandles : Step(TaskDone(h))
  \/ \E p \in Procs : Step(DoneWriteResume(p))
  \/ Step(FilesFlushed)

SpecFaults == InitFaults /\ [][NextFaults]_vars

\* one launch with a Network Monitor in which the allow-list is changed, one
\* call suspended at a time
InitTypes == Constructed /\ calls = MaxCallsTypes /\ last = NoCall /\ slots = 1

NextTypes ==
  \/ \E sa \in BOOLEAN, nopt \in {"net", "wifi"} : Call(InitCall(sa, nopt), "init", "")
  \/ \E p \in Procs : Step(InitRead(p))
  \/ \E p \in Procs : Step(InitFetchResume(p))
  \/ Call(AddUrl("u"), "addUrl", "u")
  \/ \E p \in Procs : Step(AddNewResume(p))
  \/ \E state \in NetStates : Step(NetEvent(state))
  \/ Call(PauseAll, "pauseAll", "")
  \/ Call(ResumeAll, "resumeAll", "")
  \/ \E types \in TypeLists :
        Call(SetActiveNetworkTypes(types), "setActiveNetworkTypes", "")
  \/ \E p \in Procs : Step(TypesFetchResume(p))

SpecTypes == InitTypes /\ [][NextTypes]_vars

\* the record with this id, as memory holds it (NoSpec if it does not)
InMemory(ss, id) == IF indexOfId(ss, id) > 0 THEN ss[indexOfId(ss, id)] ELSE NoSpec

\* the step is the one in which the suspended addUrl p, reviving a lazily
\* deleted record, goes on after its exists check and its write (resp. after
\* its stat), on an engine that is still initialized
ReviveStep(p, pc) ==
  /\ Acting(p) /\ proc[p].pc = pc
  /\ last' = NoCall
  /\ inited
  /\ indexOfId(specs, proc[p].id) > 0

\* C25: with the calls awaited in turn, addUrl(u) on a lazily deleted record
\* sets the record's createTime to the current time, keeping its id and
\* adding no record, and persists it so; it then starts one new transfer for
\* the record exactly if the record is unfinished or its file is missing, and
\* otherwise starts none and, the file still being there when its stat
\* returns, notifies the handlers of onBegin and then onDone for u, once each.
C25_ReviveLazyDeleted ==
  [][/\ \A url \in Urls :
          (/\ last'.op = "addUrl" /\ last'.url = url /\ inited
           /\ indexOfUrl(specs, url) > 0
           /\ specs[indexOfUrl(specs, url)].createTime <= 0)
          => /\ specs' = [specs EXCEPT ![indexOfUrl(specs, url)].createTime = now]
             /\ xfer' = xfer
             /\ \E p \in Procs : proc'[p].pc = "add_revive"
     /\ \A p \in Procs :
          /\ ReviveStep(p, "add_revive") =>
               LET rec == InMemory(specs, proc[p].id) IN
               /\ specs' = specs
               /\ rec.createTime > 0
               /\ proc[p].id \in DOMAIN store' /\ store'[proc[p].id] = rec
               /\ IF ~rec.finished \/ PathOf(rec) \notin files
                  THEN /\ Cardinality(Started) = 1
                       /\ \A h \in Started : xfer'[h].id = rec.id
                       /\ \A k \in 1..Len(out') : out'[k].k \notin {"onBegin", "onDone"}
                       /\ proc'[p].pc = "idle"
                  ELSE /\ Started = {}
                       /\ proc'[p].pc = "add_stat"
          /\ (/\ ReviveStep(p, "add_stat")
              /\ PathOf(InMemory(specs, proc[p].id)) \in files) =>
               /\ Started = {}
               /\ specs' = specs /\ store' = store
               /\ out' = IF handlers
                         THEN <<Ev("onBegin", 0, proc[p].url),
                                Ev("onDone", 0, proc[p].url)>>
                         ELSE <<>>]_vars

\* an addUrl has just revived a finished record whose file is on disk: the
\* record is active again in memory and in the store, no transfer was added
\* for it, and the step notified onBegin and then onDone
C25_Witness ==
  /\ inited
  /\ Len(specs) = 1
  /\ specs[1].finished /\ specs[1].createTime > 0
  /\ PathOf(specs[1]) \in files
  /\ specs[1].id \in DOMAIN store /\ store[specs[1].id] = specs[1]
  /\ tasks = <<>>
  /\ \E p \in Procs : proc[p].pc = "idle"
  /\ out = <<Ev("onBegin", 0, specs[1].url), Ev("onDone", 0, specs[1].url)>>

\* the step is the one in which a removal of the known url begins: a
\* removeUrl call, or a setQueue call or loop turn reaching a url to remove
StartsRemoval(url) ==
  /\ inited
  /\ indexOfUrl(specs, url) > 0
  /\ \/ last' = [op |-> "removeUrl", url |-> url]
     \/ /\ last'.op = "setQueue"
        /\ queue'.on /\ queue'.removed # <<>>
        /\ queue'.removed[1].url = url
     \/ /\ last' = NoCall
        /\ queue.on /\ queue' # queue
        /\ queue.rm # <<>> /\ Head(queue.rm) = url

\* the events of the step hold onWillRemove(url)
WillRemoveCalled(url) ==
  \E k \in 1..Len(out') : out'[k] = Ev("onWillRemove", 0, url)

\* C26: every removeUrl of a known url, and every removal a setQueue makes,
\* begins by calling onWillRemove(url) of the handlers in place and
\* suspending on the promise it returned, the record, its persisted entry and
\* the file as they were; a removal marks or removes the persisted entry and
\* unlinks the file only in steps it takes after that await returned, and
\* while it is suspended there it changes neither.
C26_WillRemoveFirst ==
  [][/\ \A url \in Urls :
          StartsRemoval(url) =>
            /\ handlers => WillRemoveCalled(url)
            /\ \E p \in Procs : /\ proc[p].pc = "idle"
                                /\ proc'[p].pc = "rm_will"
                                /\ proc'[p].url = url
            /\ specs' = specs /\ store' = store /\ files' = files
     /\ \A p \in Procs :
          /\ (proc'[p].pc = "rm_will" /\ proc[p].pc # "rm_will")
               => StartsRemoval(proc'[p].url)
          /\ (proc'[p].pc \in {"rm_write", "rm_rm"} /\ proc'[p] # proc[p])
               => /\ proc[p].pc = "rm_will"
                  /\ proc'[p].url = proc[p].url
                  /\ store' = store /\ files' = files
          /\ (proc'[p].pc = "rm_unlink" /\ proc'[p] # proc[p])
               => proc[p].pc = "rm_rm" /\ files' = files
          /\ (Acting(p) /\ last' = NoCall /\ proc[p].pc \in {"rm_will", "rm_write", "rm_rm", "rm_unlink"})
               => /\ store' # store => proc[p].pc \in {"rm_write", "rm_rm"}
                  /\ files' # files => proc[p].pc = "rm_unlink"]_vars

\* an eager removal that began by calling onWillRemove has gone on after the
\* await and has just removed the persisted entry; the file is still there
C26_Witness ==
  \E p \in Procs :
    /\ proc[p].pc = "rm_unlink"
    /\ proc[p].id \notin DOMAIN store
    /\ PathOf(proc[p].snap) \in files

\* the records other than the one with this id, in their order
Others(ss, id) == SelectSeq(ss, LAMBDA spec : spec.id # id)

\* no url has two records, and the calls suspended besides the one in slot p
\* are for other urls than its own
AmongOtherUrls(p) ==
  /\ \A i, j \in 1..Len(specs) : specs[i].url = specs[j].url => i = j
  /\ \A q \in Procs \ {p} : proc[q].pc # "idle" => proc[q].url # proc[p].url

\* C27: an eager removeUrl(u), when its removal from the Record Store
\* returns, has removed exactly u's entry from the store and exactly u's
\* record from memory, every other record staying as it was in both, also
\* when removeUrl calls for different urls overlap at their awaits; its last
\* step unlinks u's file and no other; and a removeUrl of a url that has no
\* record stops no task, unlinks no file and removes nothing from the store.
C27_EagerRemovalExact ==
  [][/\ \A p \in Procs :
          /\ (last' = NoCall /\ proc[p].pc = "rm_rm"
                /\ proc'[p].pc = "rm_unlink" /\ AmongOtherUrls(p)) =>
               /\ DOMAIN store' = DOMAIN store \ {proc[p].id}
               /\ \A id \in DOMAIN store' : store'[id] = store[id]
               /\ specs' = Others(specs, proc[p].id)
               /\ files' = files
          /\ (last' = NoCall /\ proc[p].pc = "rm_unlink"
                /\ proc'[p].pc = "idle") =>
               /\ files' = files \ {PathOf(proc[p].snap)}
               /\ specs' = specs /\ store' = store /\ xfer' = xfer
     /\ \A url \in Urls :
          (last' = [op |-> "removeUrl", url |-> url] /\ inited
             /\ indexOfUrl(specs, url) = 0)
          => /\ xfer' = xfer /\ tasks' = tasks
             /\ files' = files /\ store' = store /\ specs' = specs
             /\ proc' = proc]_vars

\* the whole-minute boundaries of the pending lazy-deletion deadlines
PendingBoundaries ==
  {roundToNextMinute(-specs[i].createTime) :
     i \in {j \in 1..Len(specs) : specs[j].createTime < 0}}

\* C28: at any time there are no more pending deletion timers than distinct
\* whole-minute boundaries among the deadlines of the lazily deleted records:
\* records whose deadlines round up to the same minute share one timer,
\* whichever calls removed them.
C28_OneTimerPerMinute == Len(timers) <= Cardinality(PendingBoundaries)

\* the step is the firing of a pending deletion timer for minute boundary B
FiresAt(B) ==
  /\ last' = NoCall
  /\ \E k \in 1..Len(timers) :
       timers[k] = B /\ B <= now /\ timers' = RemoveAt(timers, k)

\* the in-memory records that are lazily deleted with a deadline up to B
DueBy(B) ==
  {i \in 1..Len(specs) : specs[i].createTime < 0 /\ -specs[i].createTime <= B}

\* the step is the one in which the deletion suspended in slot p goes on
\* after its storage removals and unlinks
DeletionLands(p) ==
  last' = NoCall /\ proc[p].pc = "del_wait" /\ proc'[p].pc = "idle"

\* C29: a deletion timer firing for minute boundary B takes up exactly the
\* in-memory records with createTime < 0 and a deadline up to B, whichever
\* call scheduled it, and changes nothing yet; when its removals return, each
\* of those records has no persisted entry, no file and no record in memory,
\* and every other record, with its persisted entry and its file, is as it
\* was.
C29_TimerDeletesDue ==
  [][/\ \A B \in 0..(MaxTime + MinuteMs) :
          FiresAt(B) =>
            /\ specs' = specs /\ store' = store /\ files' = files
            /\ IF DueBy(B) = {}
               THEN proc' = proc
               ELSE \E p \in Procs :
                      /\ proc[p].pc = "idle" /\ proc'[p].pc = "del_wait"
                      /\ proc'[p].dels = {PathOf(specs[i]) : i \in DueBy(B)}
     /\ \A p \in Procs :
          DeletionLands(p) =>
            LET delIds == {f.id : f \in proc[p].dels} IN
            /\ \A f \in proc[p].dels : f \notin files' /\ f.id \notin DOMAIN store'
            /\ \A i \in 1..Len(specs') : specs'[i].id \notin delIds
            /\ specs' = SelectSeq(specs, LAMBDA spec : spec.id \notin delIds)
            /\ \A id \in DOMAIN store \ delIds :
                 id \in DOMAIN store' /\ store'[id] = store[id]
            /\ files' = files \ proc[p].dels]_vars

\* a timer has fired while memory held a record that was due and a lazily
\* deleted one with a later deadline: its deletion is suspended on the
\* removals of the first and has not taken up the second
C29_Witness ==
  \E p \in Procs :
    /\ proc[p].pc = "del_wait"
    /\ proc[p].dels # {}
    /\ \E i \in 1..Len(specs) :
         /\ specs[i].createTime < 0
         /\ PathOf(specs[i]) \notin proc[p].dels
    /\ \E i \in 1..Len(specs) : PathOf(specs[i]) \in proc[p].dels

\* the step is the one in which the init suspended in slot p runs its
\* reviveTask calls: after its reads if it purges nothing, else after the purge
RevivesAt(p) ==
  /\ last' = NoCall
  /\ proc[p].pc \in {"init_read", "init_rm"}
  /\ proc'[p].pc \notin {"init_read", "init_rm"}

\* what that init read: the persisted records and the provider's tasks
LoadedBy(p) == IF proc[p].pc = "init_read" THEN loadedSpecs(store) ELSE proc[p].loaded
ReportedTo(p) == IF proc[p].pc = "init_read" THEN reported(xfer) ELSE proc[p].existing

\* the step calls stop() on task h
StopCalled(h) == \E k \in 1..Len(out') : out'[k] = Ev("stop", h, "")

\* the step registers task h (once more than it was)
Registered(h) ==
  Cardinality({k \in 1..Len(tasks') : tasks'[k] = h})
    > Cardinality({k \in 1..Len(tasks) : tasks[k] = h})

Going(h) == xfer[h].st \in {"DOWNLOADING", "PAUSED"}

StartsFreshAt(p) ==
  /\ last' = NoCall
  /\ proc[p].pc \in {"init_read", "init_rm", "init_revive"}
  /\ proc'[p].pc \in {"init_orphans", "init_fetch", "idle"}

\* the tasks the provider reported to that init
ExistingOf(p) == IF proc[p].pc = "init_read" THEN reported(xfer) ELSE proc[p].existing

\* C31: for an active record with no task reported by the provider, init
\* starts a fresh transfer exactly if the record is unfinished, or is finished
\* with its file missing on disk; for a finished record whose file is there
\* it starts none.
C31_InitStartsMissing ==
  [][\A p \in Procs :
       StartsFreshAt(p) =>
         \A i \in 1..Len(specs') :
           (/\ specs'[i].createTime > 0
            /\ \A k \in 1..Len(ExistingOf(p)) :
                 xfer[ExistingOf(p)[k]].id # specs'[i].id)
           => ((\E h \in Started : xfer'[h].id = specs'[i].id)
                 <=> (~specs'[i].finished \/ PathOf(specs'[i]) \notin files))]_vars

\* the directory listing the init in slot p works with
DirOf(p) == IF proc[p].pc = "init_read" THEN files ELSE proc[p].dir

\* the listed files whose stem is the id of no record init kept
Strays(p) ==
  {f \in DirOf(p) : \A i \in 1..Len(specs') : specs'[i].id # f.id}

\* C32: init takes for unlinking exactly the listed files whose filename
\* stem is not the id of a record kept after the purge, and unlinks those and
\* no other: the file of a kept record, with or without an extension, stays.
C32_OrphansOnly ==
  [][\A p \in Procs :
       /\ StartsFreshAt(p) =>
            IF Strays(p) = {}
            THEN proc'[p].pc # "init_orphans"
            ELSE proc'[p].pc = "init_orphans" /\ proc'[p].dels = Strays(p)
       /\ (last' = NoCall /\ proc[p].pc = "init_orphans"
             /\ proc'[p].pc # "init_orphans")
          => /\ files' = files \ proc[p].dels
             /\ \A i \in 1..Len(specs) : PathOf(specs[i]) \in files
                                           => PathOf(specs[i]) \in files']_vars

\* the step is the last one of the init suspended in slot p
InitEnds(p) ==
  /\ last' = NoCall
  /\ proc[p].pc \in {"init_read", "init_rm", "init_revive", "init_orphans"}
  /\ proc'[p].pc = "idle"

Thrown == \E k \in 1..Len(out') : out'[k].k = "throw"

\* C33: an init without network options completes and marks the engine
\* initialized also when the listing of the domain directory fails, which it
\* treats as an empty listing, and when the unlink of an orphan file fails:
\* it goes from its reads to its end in steps that throw nothing, and its
\* last step sets inited.
C33_InitSurvivesFileErrors ==
  [][\A p \in Procs :
       /\ (last' = NoCall /\ proc[p].pc = "init_read" /\ proc'[p].pc # "init_read")
             => /\ ~Thrown
                /\ proc'[p].pc # "idle" => proc'[p].dir \in {files, {}}
       /\ (last' = NoCall /\ proc[p].pc = "init_orphans"
             /\ proc'[p].pc # "init_orphans") => ~Thrown
       /\ InitEnds(p) => inited']_vars

\* the step is one of the init suspended in slot p, called with an allow-list
\* but without the network callbacks
InvalidInitStep(p) ==
  /\ last' = NoCall
  /\ proc[p].pc \in {"init_read", "init_rm", "init_revive", "init_orphans"}
  /\ proc[p].nopt = "bad"
  /\ proc'[p].pc # proc[p].pc

\* C34: an init called with a non-empty activeNetworkTypes and without the
\* network callbacks rejects and leaves the engine uninitialized, and it does
\* so before it purges a record, starts or stops a transfer, deletes a file
\* or schedules a timer: no step of it changes the Record Store, the
\* provider's transfers, the files or the timers, and its last step throws.
C34_OptionsCheckedFirst ==
  [][\A p \in Procs :
       InvalidInitStep(p) =>
         /\ store' = store /\ xfer' = xfer /\ files' = files /\ timers' = timers
         /\ ~inited'
         /\ proc'[p].pc = "idle" => Thrown]_vars

\* proc p's setActiveNetworkTypes completes
TypesSet(p) ==
  last' = NoCall /\ proc[p].pc = "types_fetch" /\ proc'[p].pc = "idle"

\* the registered tasks whose transfer has not ended are paused exactly when
\* b is true
PausedIff(b) ==
  \A k \in 1..Len(tasks') :
     xfer'[tasks'[k]].st \in {"DOWNLOADING", "PAUSED"}
     => ((xfer'[tasks'[k]].st = "PAUSED") <=> b)

\* C35: after every processed connectivity event and after every completed
\* setActiveNetworkTypes(types), wouldAutoPause equals
\* !connected || (allow-list non-empty && type not in allow-list) for the
\* latest received or fetched connectivity state and the current allow-list;
\* if the user has not paused, the registered tasks are paused exactly when
\* that value is true.
C35_AutoPauseFollowsNet ==
  [][((\E state \in NetStates : NetEvent(state) /\ netInfoUnsubscriber /\ last' = NoCall)
       \/ \E p \in Procs : TypesSet(p))
     => /\ wouldAutoPause' = (~net'.isConnected
                               \/ (activeNetworkTypes' # {}
                                   /\ net'.type \notin activeNetworkTypes'))
        /\ ~isPausedByUser' => PausedIff(wouldAutoPause')]_vars

\* setActiveNetworkTypes([]) has completed on a connected cellular network
\* that the allow-list had excluded: the tasks it found paused are resumed
C35_Witness ==
  /\ inited /\ ~isPausedByUser /\ ~wouldAutoPause
  /\ \A p \in Procs : proc[p].pc = "idle"
  /\ last = NoCall
  /\ activeNetworkTypes = {}
  /\ net = [isConnected |-> TRUE, type |-> "cellular"]
  /\ tasks # <<>>
  /\ out = [i \in 1..Len(tasks) |-> Ev("resume", tasks[i], "")]

\* the record the store holds under id, NoSpec when it has none
Persisted(st, id) == IF id \in DOMAIN st THEN st[id] ELSE NoSpec

\* the step belongs to addUrl, removeUrl, setQueue or a task's done callback
OperationStep ==
  \/ last'.op \in {"addUrl", "removeUrl", "setQueue"}
  \/ queue.on /\ queue' # queue /\ last' = NoCall
  \/ /\ last' = NoCall
     /\ \E p \in Procs :
          \/ /\ proc[p].pc \in {"add_new", "add_revive", "add_stat", "rm_will",
                                "rm_write", "rm_rm", "rm_unlink", "done_write"}
             /\ proc'[p].pc # proc[p].pc
          \/ proc[p].pc = "idle" /\ proc'[p].pc = "done_write"

\* a start or a stop is issued for a transfer of record id
Commanded(id) ==
  \E k \in 1..Len(out') :
     /\ out'[k].k \in {"download", "stop"}
     /\ out'[k].h \in 1..Len(xfer')
     /\ xfer'[out'[k].h].id = id

\* C36: every state-changing operation (addUrl for a new url and for a
\* revival, removeUrl eager and lazy, setQueue, task completion) updates the
\* persisted record before it changes the in-memory record, and changes the
\* in-memory state before it issues a transport command: in no step of such an
\* operation does the in-memory record change, or a start or stop go out for
\* it, while the store still holds something else for that record.
C36_PersistFirst ==
  [][OperationStep =>
       \A id \in 1..MaxIds :
          (InMemory(specs', id) # InMemory(specs, id) \/ Commanded(id))
          => Persisted(store', id) = InMemory(specs', id)]_vars

\* C37: whenever onDone(url, path) is emitted (by a task's done callback, by
\* init for a provider task reported DONE, or by addUrl reviving a completed
\* record), the record for url is marked finished both in memory and in the
\* persisted store at that moment.
C37_DoneMeansFinished ==
  [][\A k \in 1..Len(out') :
        out'[k].k = "onDone"
        => \E i \in 1..Len(specs') :
              /\ specs'[i].url = out'[k].u
              /\ specs'[i].finished
              /\ Persisted(store', specs'[i].id).finished]_vars

\* C38: whenever the engine is initialized, its active flag equals
\* (not isPausedByUser) and (not wouldAutoPause), after any sequence of init
\* options, pauseAll, resumeAll, connectivity events and setActiveNetworkTypes
\* calls.
C38_ActiveIsNeitherPause ==
  inited => (active <=> (~isPausedByUser /\ ~wouldAutoPause))

\* resumeAll has returned on an engine the network keeps paused
C38_Witness ==
  /\ inited /\ last.op = "resumeAll"
  /\ ~isPausedByUser /\ wouldAutoPause /\ ~active
  /\ tasks # <<>>

\* no operation is suspended at an await
Quiescent == (\A p \in Procs : proc[p].pc = "idle") /\ ~queue.on

\* C39: in every quiescent state of an initialized engine, each active
\* (createTime > 0) unfinished record either has a registered task or has its
\* id in RetrySet; no record is left without a pending or retryable download.
C39_NoRecordLeftBehind ==
  (inited /\ Quiescent)
  => \A i \in 1..Len(specs) :
        (specs[i].createTime > 0 /\ ~specs[i].finished)
        => \/ \E k \in 1..Len(tasks) : xfer[tasks[k]].id = specs[i].id
           \/ specs[i].id \in erroredIds

\* C40: in every reachable state each registered task's id is the id of an
\* in-memory record: no task stays registered for a record that was eagerly
\* removed by removeUrl, or purged by a deletion timer, while an addUrl revival
\* of that same record was suspended at an await.
C40_TasksHaveRecords ==
  \A k \in 1..Len(tasks) :
     \E i \in 1..Len(specs) : specs[i].id = xfer[tasks[k]].id
====
